---- MODULE Spec2Model ----
(***************************************************************************)
(* Model of the nero splitter / disprove-script machinery.                 *)
(*                                                                         *)
(* A script is a sequence of instructions [op, arg]; the interpreter is a  *)
(* two-stack machine.  Stack elements are integers: script numbers are the *)
(* integers above -HashBase, 20-byte hashes are the integers from -HashBase *)
(* down (one code per link of a Winternitz hash chain), so that every      *)
(* value below 2^31 is a script number.                                    *)
(***************************************************************************)
EXTENDS Integers, Sequences, FiniteSets, TLC

(***************************************************************************)
(* Bounds of the model                                                     *)
(***************************************************************************)
MaxProgLen == 3      \* instructions of the program P
MaxInputLen == 2     \* elements pushed by the input x
MaxValue == 1        \* input elements are 1..MaxValue, claimed elements 0..MaxValue
MaxChunk == 3        \* largest chunk_size handed to split
MaxRandom == 2       \* rand::random::<usize>() draws 0..MaxRandom
MaxSeed == 0         \* seeds 0..MaxSeed
MaxNewLen == 2       \* lengths of the vectors handed to SplitResult::new
MaxMemoValue == 40   \* values with a tabulated Winternitz run
MaxMemoKey == 24     \* keys with a tabulated Winternitz run

(***************************************************************************)
(* bitcoin-winternitz/src/u32.rs : parameters                              *)
(***************************************************************************)
D == 15
BITS_PER_DIGIT == 4
V == 31
N0 == 8
N1 == 2
N == N0 + N1

(***************************************************************************)
(* Hash160: chain link `depth` of chunk `idx` of the secret key `k`.       *)
(***************************************************************************)
HashBase == 1000000
JunkHash == -(2 * HashBase)

ChainHash(key, idx, depth) == -(HashBase + (key * N + idx) * (D + 1) + depth)

IsHash(x) == x <= -HashBase

Hash160(x) ==
    IF x <= -HashBase /\ x > JunkHash /\ ((-x) - HashBase) % (D + 1) < D
    THEN x - 1
    ELSE JunkHash

(***************************************************************************)
(* The interpreter (execute_script): one instruction on a two-stack state. *)
(***************************************************************************)
Ins(o, a) == [op |-> o, arg |-> a]
Op(o) == [op |-> o, arg |-> 0]
Push(n) == [op |-> "PUSH", arg |-> n]

Depth(s) == Len(s)
Peek(s, i) == s[Len(s) - i]
Pop(s, n) == SubSeq(s, 1, Len(s) - n)
RemoveAt(s, i) == SubSeq(s, 1, Len(s) - i - 1) \o SubSeq(s, Len(s) - i + 1, Len(s))
Bool(b) == IF b THEN 1 ELSE 0
Min(a, b) == IF a <= b THEN a ELSE b
Max(a, b) == IF a >= b THEN a ELSE b

EmptyExec == [stack |-> <<>>, alt |-> <<>>, ok |-> TRUE]

Fail(st) == [st EXCEPT !.ok = FALSE]

IsNum(x) == ~IsHash(x)

Nums(s, n) == \A i \in 0..(n - 1) : IsNum(Peek(s, i))

Step(ins, st) ==
    LET s == st.stack
        a == st.alt
        o == ins.op
        need(n) == Len(s) >= n
        set(ns) == [st EXCEPT !.stack = ns]
    IN
    IF ~st.ok THEN st
    ELSE IF o = "PUSH" THEN set(Append(s, ins.arg))
    ELSE IF o = "OP_DROP" THEN IF need(1) THEN set(Pop(s, 1)) ELSE Fail(st)
    ELSE IF o = "OP_2DROP" THEN IF need(2) THEN set(Pop(s, 2)) ELSE Fail(st)
    ELSE IF o = "OP_DUP" THEN IF need(1) THEN set(Append(s, Peek(s, 0))) ELSE Fail(st)
    ELSE IF o = "OP_SWAP" THEN
        IF need(2) THEN set(Pop(s, 2) \o <<Peek(s, 0), Peek(s, 1)>>) ELSE Fail(st)
    ELSE IF o = "OP_TUCK" THEN
        IF need(2) THEN set(Pop(s, 2) \o <<Peek(s, 0), Peek(s, 1), Peek(s, 0)>>)
        ELSE Fail(st)
    ELSE IF o = "OP_TOALTSTACK" THEN
        IF need(1) THEN [st EXCEPT !.stack = Pop(s, 1), !.alt = Append(a, Peek(s, 0))]
        ELSE Fail(st)
    ELSE IF o = "OP_FROMALTSTACK" THEN
        IF Len(a) >= 1
        THEN [st EXCEPT !.stack = Append(s, Peek(a, 0)), !.alt = Pop(a, 1)]
        ELSE Fail(st)
    ELSE IF o = "OP_ADD" THEN
        IF need(2) /\ Nums(s, 2) THEN set(Append(Pop(s, 2), Peek(s, 1) + Peek(s, 0)))
        ELSE Fail(st)
    ELSE IF o = "OP_SUB" THEN
        IF need(2) /\ Nums(s, 2) THEN set(Append(Pop(s, 2), Peek(s, 1) - Peek(s, 0)))
        ELSE Fail(st)
    ELSE IF o = "OP_MIN" THEN
        IF need(2) /\ Nums(s, 2)
        THEN set(Append(Pop(s, 2), Min(Peek(s, 1), Peek(s, 0))))
        ELSE Fail(st)
    ELSE IF o = "OP_NEGATE" THEN
        IF need(1) /\ Nums(s, 1) THEN set(Append(Pop(s, 1), 0 - Peek(s, 0)))
        ELSE Fail(st)
    ELSE IF o = "OP_NOT" THEN
        IF need(1) /\ Nums(s, 1) THEN set(Append(Pop(s, 1), Bool(Peek(s, 0) = 0)))
        ELSE Fail(st)
    ELSE IF o = "OP_BOOLOR" THEN
        IF need(2) /\ Nums(s, 2)
        THEN set(Append(Pop(s, 2), Bool(Peek(s, 1) # 0 \/ Peek(s, 0) # 0)))
        ELSE Fail(st)
    ELSE IF o = "OP_BOOLAND" THEN
        IF need(2) /\ Nums(s, 2)
        THEN set(Append(Pop(s, 2), Bool(Peek(s, 1) # 0 /\ Peek(s, 0) # 0)))
        ELSE Fail(st)
    ELSE IF o = "OP_EQUAL" THEN
        IF need(2) THEN set(Append(Pop(s, 2), Bool(Peek(s, 1) = Peek(s, 0))))
        ELSE Fail(st)
    ELSE IF o = "OP_EQUALVERIFY" THEN
        IF need(2) /\ Peek(s, 1) = Peek(s, 0) THEN set(Pop(s, 2)) ELSE Fail(st)
    ELSE IF o = "OP_VERIFY" THEN
        IF need(1) /\ Peek(s, 0) # 0 THEN set(Pop(s, 1)) ELSE Fail(st)
    ELSE IF o = "OP_HASH160" THEN
        IF need(1) THEN set(Append(Pop(s, 1), Hash160(Peek(s, 0)))) ELSE Fail(st)
    ELSE IF o = "OP_PICK" THEN
        IF need(1) /\ Nums(s, 1) /\ Peek(s, 0) >= 0 /\ Peek(s, 0) < Len(s) - 1
        THEN set(Append(Pop(s, 1), Peek(Pop(s, 1), Peek(s, 0))))
        ELSE Fail(st)
    ELSE IF o = "OP_ROLL" THEN
        IF need(1) /\ Nums(s, 1) /\ Peek(s, 0) >= 0 /\ Peek(s, 0) < Len(s) - 1
        THEN set(Append(RemoveAt(Pop(s, 1), Peek(s, 0)), Peek(Pop(s, 1), Peek(s, 0))))
        ELSE Fail(st)
    ELSE Fail(st)

RECURSIVE ExecFlat(_, _)
ExecFlat(script, st) ==
    IF Len(script) = 0 \/ ~st.ok THEN st
    ELSE IF Len(script) = 1 THEN Step(script[1], st)
    ELSE LET h == Len(script) \div 2
         IN ExecFlat(SubSeq(script, h + 1, Len(script)), ExecFlat(SubSeq(script, 1, h), st))

(***************************************************************************)
(* script! helpers: repetition and concatenation of sub-scripts.           *)
(***************************************************************************)
Repeat(script, n) ==
    IF n <= 0 \/ Len(script) = 0 THEN <<>>
    ELSE [i \in 1..(n * Len(script)) |-> script[((i - 1) % Len(script)) + 1]]

RECURSIVE Concat(_)
Concat(ss) ==
    IF Len(ss) = 0 THEN <<>>
    ELSE IF Len(ss) = 1 THEN ss[1]
    ELSE LET h == Len(ss) \div 2
         IN Concat(SubSeq(ss, 1, h)) \o Concat(SubSeq(ss, h + 1, Len(ss)))

(***************************************************************************)
(* bitcoin-winternitz/src/u32.rs                                           *)
(***************************************************************************)
Pow2(n) == IF n = 0 THEN 1 ELSE 2 ^ n

\* Message::from_u32 : the N digits of a 31-bit value, checksum last
MessageDigit(msg, i) == (msg \div Pow2(BITS_PER_DIGIT * i)) % (D + 1)

RECURSIVE DigitSum(_, _)
DigitSum(msg, n) == IF n = 0 THEN 0 ELSE DigitSum(msg, n - 1) + MessageDigit(msg, n - 1)

\* the digits of the value followed by two zero digits
from_u32_without_checksum(msg) ==
    [i \in 1..N |-> IF i <= N0 THEN MessageDigit(msg, i - 1) ELSE 0]

from_u32(msg) ==
    LET checksum == (D * N0 - DigitSum(msg, N0)) % 256
    IN [i \in 1..N |->
            IF i <= N0 THEN MessageDigit(msg, i - 1)
            ELSE IF i = N0 + 1 THEN checksum % 16
            ELSE checksum \div 16]

\* every chunk handed out as it is
sign_unhashed(key, digits) == [i \in 1..N |-> ChainHash(key, i - 1, 0)]

\* SecretKey::sign : chunk idx hashed digit[idx] times
sign(key, digits) == [i \in 1..N |-> ChainHash(key, i - 1, digits[i])]

\* SecretKey::public_key : every chunk hashed D times
public_key(key) == [i \in 1..N |-> ChainHash(key, i - 1, D)]

\* Signature::to_script_sig
to_script_sig_skipping(sig, digits, skipping) ==
    Concat([j \in 1..N1 |-> <<Push(sig[N + 1 - j]), Push(digits[N + 1 - j])>>])
    \o Concat([j \in 1..(N0 - skipping) |->
                <<Push(sig[N0 - skipping + 1 - j]), Push(digits[N0 - skipping + 1 - j])>>])

to_script_sig(sig, digits) == to_script_sig_skipping(sig, digits, 0)

checksig_verify_limb_script(pubkey) ==
    <<Push(D), Op("OP_MIN"), Op("OP_DUP"), Op("OP_TOALTSTACK"), Op("OP_TOALTSTACK")>>
    \o Repeat(<<Op("OP_DUP"), Op("OP_HASH160")>>, D)
    \o <<Op("OP_FROMALTSTACK"), Op("OP_PICK"), Push(pubkey), Op("OP_EQUALVERIFY")>>
    \o Repeat(<<Op("OP_2DROP")>>, (D + 1) \div 2)

checksig_verify_script_compact(zero_limbs, pk) ==
    Concat([i \in 1..(N0 - zero_limbs) |-> checksig_verify_limb_script(pk[i])])
    \o Concat([i \in 1..N1 |-> checksig_verify_limb_script(pk[N0 + i])])
    \o <<Op("OP_FROMALTSTACK")>>
    \o Repeat(Repeat(<<Op("OP_DUP"), Op("OP_ADD")>>, BITS_PER_DIGIT)
              \o <<Op("OP_FROMALTSTACK"), Op("OP_ADD")>>, N1 - 1)
    \o <<Op("OP_FROMALTSTACK"), Op("OP_DUP"), Op("OP_NEGATE")>>
    \o Repeat(<<Op("OP_FROMALTSTACK"), Op("OP_TUCK"), Op("OP_SUB")>>, N0 - zero_limbs - 1)
    \o <<Push(D * N0), Op("OP_ADD"), Push(N0 - zero_limbs + 1), Op("OP_ROLL"),
         Op("OP_EQUALVERIFY")>>

checksig_verify_script(pk) == checksig_verify_script_compact(0, pk)

\* the limbs summed without their weights
recovery_script_unshifted(limbs_num) ==
    Repeat(<<Op("OP_TOALTSTACK")>>, limbs_num)
    \o <<Op("OP_FROMALTSTACK")>>
    \o Repeat(<<Op("OP_FROMALTSTACK"), Op("OP_ADD")>>, limbs_num - 1)

recovery_script_fixed_limbs(limbs_num) ==
    IF limbs_num = 1 THEN <<>>
    ELSE Concat([i \in 1..limbs_num |->
                    Repeat(<<Op("OP_DUP"), Op("OP_ADD")>>, BITS_PER_DIGIT * (i - 1))
                    \o <<Op("OP_TOALTSTACK")>>])
         \o <<Op("OP_FROMALTSTACK")>>
         \o Repeat(<<Op("OP_FROMALTSTACK"), Op("OP_ADD")>>, limbs_num - 1)

recovery_script == recovery_script_fixed_limbs(N0)


(***************************************************************************)
(* The sub-script { checksig_verify_script(pk) } { Message::recovery_script() } *)
(* is embedded in a script as one item, WINTERNITZ with the key of pk; its *)
(* meaning is the execution of its expansion.                              *)
(***************************************************************************)
Winternitz(key) == [op |-> "WINTERNITZ", arg |-> key]

Expand(ins) ==
    IF ins.op = "WINTERNITZ"
    THEN checksig_verify_script(public_key(ins.arg)) \o recovery_script
    ELSE <<ins>>

RECURSIVE Flatten(_)
Flatten(script) ==
    IF Len(script) = 0 THEN <<>>
    ELSE IF Len(script) = 1 THEN Expand(script[1])
    ELSE LET h == Len(script) \div 2
         IN Flatten(SubSeq(script, 1, h)) \o Flatten(SubSeq(script, h + 1, Len(script)))

\* the 2N stack items pushed by the signature of value val under key
SigItems(val, key) ==
    LET pushes == to_script_sig(sign(key, from_u32(val)), from_u32(val))
    IN [i \in 1..(2 * N) |-> pushes[i].arg]

WinternitzRun(val, key) ==
    ExecFlat(Expand(Winternitz(key)), [EmptyExec EXCEPT !.stack = SigItems(val, key)])

WinternitzTable ==
    [p \in (0..MaxMemoValue) \X (0..MaxMemoKey) |-> WinternitzRun(p[1], p[2])] @@ <<>>

\* into_u32 of the digits found in the top 2N items (digit of limb i at depth 2i)
RECURSIVE TopValue(_, _)
TopValue(s, i) ==
    IF i = N0 THEN 0
    ELSE (IF IsNum(Peek(s, 2 * i)) /\ Peek(s, 2 * i) \in 0..D THEN Peek(s, 2 * i) ELSE 0)
         * Pow2(BITS_PER_DIGIT * i) + TopValue(s, i + 1)

\* the tabulated run, applied on top of the rest of the stack
Splice(st, r) ==
    [stack |-> Pop(st.stack, 2 * N) \o r.stack, alt |-> st.alt \o r.alt, ok |-> r.ok]

Tabulated(s, val, key) ==
    /\ Len(s) >= 2 * N
    /\ val \in 0..MaxMemoValue
    /\ key \in 0..MaxMemoKey
    /\ SubSeq(s, Len(s) - 2 * N + 1, Len(s)) = SigItems(val, key)

ExecWinternitzAt(ins, st, val) ==
    IF Tabulated(st.stack, val, ins.arg)
    THEN Splice(st, WinternitzTable[<<val, ins.arg>>])
    ELSE ExecFlat(Expand(ins), st)

ExecWinternitz(ins, st) == ExecWinternitzAt(ins, st, TopValue(st.stack, 0))

RECURSIVE Exec(_, _)
Exec(script, st) ==
    IF Len(script) = 0 \/ ~st.ok THEN st
    ELSE IF Len(script) = 1
         THEN IF script[1].op = "WINTERNITZ" THEN ExecWinternitz(script[1], st)
              ELSE Step(script[1], st)
    ELSE LET h == Len(script) \div 2
         IN Exec(SubSeq(script, h + 1, Len(script)), Exec(SubSeq(script, 1, h), st))


(***************************************************************************)
(* Stack elements as byte strings (Script numbers, little endian with a    *)
(* sign bit; zero is the empty string).                                    *)
(***************************************************************************)
RECURSIVE MagnitudeBytes(_)
MagnitudeBytes(n) == IF n = 0 THEN <<>> ELSE <<n % 256>> \o MagnitudeBytes(n \div 256)

scriptint_vec(n) ==
    IF IsHash(n) THEN <<n>>
    ELSE IF n = 0 THEN <<>>
    ELSE LET m == MagnitudeBytes(IF n < 0 THEN -n ELSE n)
             top == m[Len(m)]
         IN IF top >= 128 THEN m \o <<IF n < 0 THEN 128 ELSE 0>>
            ELSE IF n < 0 THEN [m EXCEPT ![Len(m)] = top + 128]
            ELSE m

RECURSIVE LeBytes(_, _)
LeBytes(bytes, i) ==
    IF i > Len(bytes) THEN 0 ELSE bytes[i] + 256 * LeBytes(bytes, i + 1)

read_scriptint(bytes) ==
    IF Len(bytes) = 0 THEN 0
    ELSE IF IsHash(bytes[1]) THEN bytes[1]
    ELSE LET top == bytes[Len(bytes)]
         IN IF top >= 128
            THEN -LeBytes([bytes EXCEPT ![Len(bytes)] = top - 128], 1)
            ELSE LeBytes(bytes, 1)

(***************************************************************************)
(* bitcoin-splitter : IntermediateState                                    *)
(***************************************************************************)
IntermediateState(stack, altstack) == [stack |-> stack, altstack |-> altstack]

\* the state an execution ended in
from_exec(st) ==
    IntermediateState([i \in 1..Len(st.stack) |-> scriptint_vec(st.stack[i])],
                      [i \in 1..Len(st.alt) |-> scriptint_vec(st.alt[i])])

size(state) == Len(state.stack) + Len(state.altstack)

\* script pushing the elements of a stack
stack_to_script(stack) == [i \in 1..Len(stack) |-> Push(read_scriptint(stack[i]))]

\* script that rebuilds the state on an empty machine
inject_script(state) ==
    stack_to_script(state.stack)
    \o Concat([i \in 1..Len(state.altstack) |->
                  <<Push(read_scriptint(state.altstack[i])), Op("OP_TOALTSTACK")>>])

execute_script(script) == Exec(script, EmptyExec)

from_inject_script(input) == from_exec(execute_script(input))

\* the machine state holding an IntermediateState
Machine(state) ==
    [stack |-> [i \in 1..Len(state.stack) |-> read_scriptint(state.stack[i])],
     alt |-> [i \in 1..Len(state.altstack) |-> read_scriptint(state.altstack[i])],
     ok |-> TRUE]

(***************************************************************************)
(* bitcoin-splitter : split/core.rs                                        *)
(***************************************************************************)
DEFAULT_CHUNK_SIZE == 1

SplitTypes == {"ByInstructions", "ByBytes"}
SplitType_default == "ByInstructions"

\* serialized length of an instruction
instruction_size(ins) ==
    IF ins.op # "PUSH" THEN 1
    ELSE IF IsHash(ins.arg) THEN 21
    ELSE IF ins.arg >= -1 /\ ins.arg <= 16 THEN 1
    ELSE 1 + Len(scriptint_vec(ins.arg))

RECURSIVE script_size(_)
script_size(script) ==
    IF Len(script) = 0 THEN 0
    ELSE IF Len(script) = 1 THEN instruction_size(script[1])
    ELSE LET h == Len(script) \div 2
         IN script_size(SubSeq(script, 1, h)) + script_size(SubSeq(script, h + 1, Len(script)))

RECURSIVE chunks_by_bytes(_, _, _, _)
chunks_by_bytes(script, pos, current, chunk_size) ==
    IF pos > Len(script)
    THEN IF Len(current) = 0 THEN <<>> ELSE <<current>>
    ELSE LET next == Append(current, script[pos])
         IN IF script_size(next) >= chunk_size
            THEN <<next>> \o chunks_by_bytes(script, pos + 1, <<>>, chunk_size)
            ELSE chunks_by_bytes(script, pos + 1, next, chunk_size)

split_into_shards(script, chunk_size, split_type) ==
    IF split_type = "ByInstructions"
    THEN [j \in 1..((Len(script) + chunk_size - 1) \div chunk_size) |->
             SubSeq(script, (j - 1) * chunk_size + 1, Min(j * chunk_size, Len(script)))]
    ELSE chunks_by_bytes(script, 1, <<>>, chunk_size)

\* states after the first n shards, or the failure of one of them
appended(prev, r) ==
    IF r.ok THEN [ok |-> TRUE, states |-> Append(prev.states, from_exec(r))]
    ELSE [ok |-> FALSE, states |-> prev.states]

next_state(prev, shards, input, n) ==
    IF ~prev.ok THEN prev
    ELSE appended(prev, execute_script(
             (IF n = 1 THEN input ELSE inject_script(prev.states[n - 1])) \o shards[n]))

RECURSIVE form_states_upto(_, _, _)
form_states_upto(shards, input, n) ==
    IF n = 0 THEN [ok |-> TRUE, states |-> <<>>]
    ELSE next_state(form_states_upto(shards, input, n - 1), shards, input, n)

form_states_from_shards(shards, input) == form_states_upto(shards, input, Len(shards))

NoResult == [tag |-> "none", shards |-> <<>>, intermediate_states |-> <<>>]
SplitFailure == [tag |-> "error", shards |-> <<>>, intermediate_states |-> <<>>]
SplitResult(shards, intermediate_states) ==
    [tag |-> "ok", shards |-> shards, intermediate_states |-> intermediate_states]

formed_result(shards, formed) ==
    IF formed.ok THEN SplitResult(shards, formed.states) ELSE SplitFailure

split_with_shards(shards, input) ==
    formed_result(shards, form_states_from_shards(shards, input))

naive_split(input, script, split_type, chunk_size) ==
    IF Len(script) = 0 \/ chunk_size = 0 THEN SplitFailure
    ELSE split_with_shards(split_into_shards(script, chunk_size, split_type), input)

default_split(input, script, split_type) ==
    naive_split(input, script, split_type, DEFAULT_CHUNK_SIZE)

(***************************************************************************)
(* bitcoin-splitter : split/script.rs                                      *)
(***************************************************************************)
VARIABLES
    program,             \* Self::script() of the SplitableScript
    program_input,       \* the input script x
    split_result,        \* the SplitResult at hand (tag "none" before any)
    origin,              \* the operation that produced split_result
    random,              \* the last value drawn from rand::random::<usize>()
    distorted,           \* what distort returned: (SplitResult, index) or a panic
    disprove_scripts,    \* the Vec<DisproveScript> built last, with the index reported
    verdicts,            \* the executions of witness + script_pubkey, one per script
    seed_used,           \* the seed handed to the seeded construction
    regenerated,         \* the scripts of a second call with the same arguments
    split_type_used,     \* the SplitType handed to split or fuzzy_split
    chunk_size_used,     \* the chunk size handed to split
    complexity,          \* what complexity_index returned for split_result
    message,             \* the u32 handed to the Winternitz signer
    secret_key,          \* the seed of the Winternitz SecretKey
    signature,           \* the Signature over message
    verified,            \* what PublicKey::verify returned
    recovered,           \* the run of the verification and recovery scripts
    forged,              \* the attempt to advance the signature to another value
    msg_bytes,           \* the byte string handed to Message::from_bytes
    encoded,             \* the Message that from_bytes returned
    config,              \* the OperatorConfig
    context,             \* the Context built by Operator::new or new_distorted
    height,              \* the height of the chain
    confirmed            \* the height each protocol transaction confirmed at

seeded_vars == <<seed_used, regenerated>>

splitter_vars == <<split_type_used, chunk_size_used, complexity>>

winternitz_vars == <<message, secret_key, signature, verified, recovered, forged>>
generic_vars == <<msg_bytes, encoded>>
protocol_vars == <<config, context, height, confirmed>>

vars == <<program, program_input, split_result, origin, random, distorted,
          disprove_scripts, verdicts, seeded_vars, splitter_vars, winternitz_vars, generic_vars, protocol_vars>>

SplitResult_new(shards, intermediate_states) == SplitResult(shards, intermediate_states)

len(self) == Len(self.intermediate_states)

is_empty(self) == Len(self.intermediate_states) = 0

Panic == [tag |-> "panic", result |-> NoResult, id |-> 0]
NotDistorted == [tag |-> "none", result |-> NoResult, id |-> 0]

distort_unchecked(self, rand) ==
    IF Len(self.shards) = 0 THEN Panic
    ELSE LET distorted_shard_id == rand % Len(self.shards)
         IN IF distorted_shard_id >= Len(self.intermediate_states) THEN Panic
            ELSE LET current_stack == self.intermediate_states[distorted_shard_id + 1].stack
                     random_state == stack_to_script(current_stack)
                                     \o <<Op("OP_DROP"), Push(0)>>
                     main_stack == from_exec(execute_script(random_state)).stack
                 IN [tag |-> "ok",
                     result |-> [self EXCEPT
                         !.intermediate_states[distorted_shard_id + 1].stack = main_stack],
                     id |-> distorted_shard_id]

\* the state's main stack replaced by the single element 0
distort_whole_stack(self, rand) ==
    IF Len(self.shards) = 0 THEN Panic
    ELSE LET distorted_shard_id == rand % Len(self.shards)
         IN IF distorted_shard_id >= Len(self.intermediate_states) THEN Panic
            ELSE IF Len(self.intermediate_states[distorted_shard_id + 1].stack) = 0 THEN Panic
            ELSE [tag |-> "ok",
                  result |-> [self EXCEPT
                      !.intermediate_states[distorted_shard_id + 1].stack =
                          from_exec(execute_script(<<Push(0)>>)).stack],
                  id |-> distorted_shard_id]

\* distort with the drawn random number; the index is 0-based as in the source
distort(self, rand) ==
    IF Len(self.shards) = 0 THEN Panic
    ELSE LET distorted_shard_id == rand % Len(self.shards)
         IN IF distorted_shard_id >= Len(self.intermediate_states) THEN Panic
            ELSE LET current_stack == self.intermediate_states[distorted_shard_id + 1].stack
                     random_state == stack_to_script(current_stack)
                                     \o <<Op("OP_DROP"), Push(0)>>
                     main_stack == from_exec(execute_script(random_state)).stack
                 IN IF Len(current_stack) = 0 THEN Panic
                    ELSE [tag |-> "ok",
                          result |-> [self EXCEPT
                              !.intermediate_states[distorted_shard_id + 1].stack = main_stack],
                          id |-> distorted_shard_id]

\* SplitableScript::split and SplitableScript::default_split of the trait
split_swapped(input, split_type, chunk_size) == naive_split(program, input, split_type, chunk_size)

split_default_chunk(input, split_type, chunk_size) ==
    naive_split(input, program, split_type, DEFAULT_CHUNK_SIZE)

split(input, split_type, chunk_size) == naive_split(input, program, split_type, chunk_size)

trait_default_split(input, split_type) == default_split(input, program, split_type)

\* the shards cut out of a script at the positions `cuts`
CutShards(script, cuts) ==
    LET bounds == cuts \cup {0, Len(script)}
        nth(j) == CHOOSE b \in bounds : Cardinality({c \in bounds : c < b}) = j
    IN [j \in 1..(Cardinality(bounds) - 1) |-> SubSeq(script, nth(j - 1) + 1, nth(j))]

Prefix(s, n) == SubSeq(s, 1, Min(n, Len(s)))

\* an implementor's override: hand-built shards, states formed from them
override_default_split_no_input(shards, input) ==
    formed_result(shards, form_states_from_shards(shards, <<>>))

override_default_split_partial(shards, input) ==
    SplitResult(shards, form_states_from_shards(shards, input).states)

override_default_split(shards, input) ==
    formed_result(shards, form_states_from_shards(shards, input))

(***************************************************************************)
(* bitcoin-utils : pseudo.rs, comparison.rs                                *)
(***************************************************************************)
OP_LONGFROMALTSTACK(length) == Repeat(<<Op("OP_FROMALTSTACK")>>, length)

\* { a[1..n] } { b[1..n] }  ->  1 if some a[i] differs from b[i], else 0
OP_LONGNOTEQUAL(n) ==
    IF n = 0 THEN <<Push(0)>>
    ELSE Concat([i \in 1..n |->
                    <<Push(n + 1 - i), Op("OP_ROLL"), Op("OP_EQUAL"), Op("OP_NOT"),
                      Op("OP_TOALTSTACK")>>])
         \o <<Op("OP_FROMALTSTACK")>>
         \o Repeat(<<Op("OP_FROMALTSTACK"), Op("OP_BOOLOR")>>, n - 1)

\* ExecuteInfo.success: no error and exactly one, true, element left
success(st) == st.ok /\ Len(st.stack) = 1 /\ st.stack[1] # 0

(***************************************************************************)
(* core : disprove/signing.rs                                              *)
(***************************************************************************)
MAX_STACK_ELEMENT_VALUE == 2147483647

\* secret keys: one per seed, and the keys drawn from the entropy
SeedKey(seed) == seed
EntropyKey(drawn) == MaxSeed + 1 + drawn

SignedStackElement(stack_element, key) == [stack_element |-> stack_element, key |-> key]

element_encoding(element) == from_u32(element.stack_element)
element_signature(element) == sign(element.key, element_encoding(element))

\* a u32 read from little-endian bytes, as its top bit and its low 31 bits
u32_top_bit(bytes) == Len(bytes) >= 4 /\ bytes[4] >= 128
u32_low_bits(bytes) ==
    LeBytes([i \in 1..Min(Len(bytes), 4) |-> IF i = 4 THEN bytes[i] % 128 ELSE bytes[i]], 1)

stack_as_u32(stack) == [i \in 1..Len(stack) |-> u32_low_bits(stack[i])]

\* the assertion of sign_fn: every element is at most MAX_STACK_ELEMENT_VALUE
signable(state) ==
    /\ \A i \in 1..Len(state.stack) :
           ~u32_top_bit(state.stack[i]) /\ u32_low_bits(state.stack[i]) <= MAX_STACK_ELEMENT_VALUE
    /\ \A i \in 1..Len(state.altstack) :
           ~u32_top_bit(state.altstack[i])
           /\ u32_low_bits(state.altstack[i]) <= MAX_STACK_ELEMENT_VALUE

\* the signing function handed to sign_fn: SignedStackElement::sign, after
\* `drawn` keys were taken from the entropy, or sign_with_seed with a seed
Signer_sign(drawn) == [with_seed |-> FALSE, seed |-> 0, drawn |-> drawn]
Signer_sign_with_seed(seed) == [with_seed |-> TRUE, seed |-> seed, drawn |-> 0]

\* secret key of the j-th call of the signing function
signer_key(signer, j) ==
    IF signer.with_seed THEN SeedKey(signer.seed) ELSE EntropyKey(signer.drawn + j - 1)

sign_fn(state, signer) ==
    LET stack == stack_as_u32(state.stack)
        altstack == stack_as_u32(state.altstack)
    IN [stack |-> [i \in 1..Len(stack) |->
                      SignedStackElement(stack[i], signer_key(signer, i))],
        altstack |-> [i \in 1..Len(altstack) |->
                         SignedStackElement(altstack[i], signer_key(signer, Len(stack) + i))]]

SignedIntermediateState_sign(state, drawn) == sign_fn(state, Signer_sign(drawn))

SignedIntermediateState_sign_with_seed(state, seed) ==
    sign_fn(state, Signer_sign_with_seed(seed))

total_len(self) == Len(self.stack) + Len(self.altstack)

element_script_sig(element) == to_script_sig(element_signature(element), element_encoding(element))

witness_script_unreversed(self) ==
    Concat([i \in 1..Len(self.stack) |-> element_script_sig(self.stack[i])])
    \o Concat([i \in 1..Len(self.altstack) |-> element_script_sig(self.altstack[i])])

witness_script(self) ==
    Concat([i \in 1..Len(self.stack) |-> element_script_sig(self.stack[i])])
    \o Concat([i \in 1..Len(self.altstack) |->
                  element_script_sig(self.altstack[Len(self.altstack) + 1 - i])])

verification_script_toaltstack(self) ==
    Concat([i \in 1..Len(self.altstack) |->
               <<Winternitz(self.altstack[i].key), Op("OP_TOALTSTACK")>>])
    \o Concat([i \in 1..Len(self.stack) |->
                  <<Winternitz(self.stack[Len(self.stack) + 1 - i].key), Op("OP_TOALTSTACK")>>])

verification_script_fromaltstack(self) == Repeat(<<Op("OP_FROMALTSTACK")>>, Len(self.stack))

verification_script(self) ==
    verification_script_toaltstack(self) \o verification_script_fromaltstack(self)

(***************************************************************************)
(* core : disprove/mod.rs                                                  *)
(***************************************************************************)
\* a DisproveScript is kept as the signed states and the function it was
\* made of; its two scripts are functions of them
new_from_signed_states(from, to, function) ==
    [from |-> from, to |-> to, function |-> function]

script_witness(ds) == witness_script(ds.from) \o witness_script(ds.to)

script_pubkey_short_roll(ds) ==
    LET from == ds.from
        to == ds.to
    IN verification_script_toaltstack(to)
       \o verification_script(from)
       \o ds.function
       \o OP_LONGFROMALTSTACK(Len(to.altstack))
       \o verification_script_fromaltstack(to)
       \o Repeat(<<Push(total_len(to) - 1), Op("OP_ROLL")>>, Len(to.stack))
       \o OP_LONGNOTEQUAL(Len(to.stack))
       \o OP_LONGFROMALTSTACK(Len(to.altstack))
       \o Repeat(<<Push(2 * Len(to.altstack)), Op("OP_ROLL")>>, Len(to.altstack))
       \o OP_LONGNOTEQUAL(Len(to.altstack))
       \o <<Op("OP_BOOLOR")>>

script_pubkey_booland(ds) ==
    LET from == ds.from
        to == ds.to
    IN verification_script_toaltstack(to)
       \o verification_script(from)
       \o ds.function
       \o OP_LONGFROMALTSTACK(Len(to.altstack))
       \o verification_script_fromaltstack(to)
       \o Repeat(<<Push(total_len(to) + Len(to.stack) - 1), Op("OP_ROLL")>>, Len(to.stack))
       \o OP_LONGNOTEQUAL(Len(to.stack))
       \o OP_LONGFROMALTSTACK(Len(to.altstack))
       \o Repeat(<<Push(2 * Len(to.altstack)), Op("OP_ROLL")>>, Len(to.altstack))
       \o OP_LONGNOTEQUAL(Len(to.altstack))
       \o <<Op("OP_BOOLAND")>>

script_pubkey(ds) ==
    LET from == ds.from
        to == ds.to
    IN verification_script_toaltstack(to)
       \o verification_script(from)
       \o ds.function
       \o OP_LONGFROMALTSTACK(Len(to.altstack))
       \o verification_script_fromaltstack(to)
       \o Repeat(<<Push(total_len(to) + Len(to.stack) - 1), Op("OP_ROLL")>>, Len(to.stack))
       \o OP_LONGNOTEQUAL(Len(to.stack))
       \o OP_LONGFROMALTSTACK(Len(to.altstack))
       \o Repeat(<<Push(2 * Len(to.altstack)), Op("OP_ROLL")>>, Len(to.altstack))
       \o OP_LONGNOTEQUAL(Len(to.altstack))
       \o <<Op("OP_BOOLOR")>>

\* `drawn` keys have been taken from the entropy before the call
DisproveScript_new(from, to, function, drawn) ==
    new_from_signed_states(SignedIntermediateState_sign(from, drawn),
                           SignedIntermediateState_sign(to, drawn + size(from)),
                           function)

DisproveScript_new_with_seed(from, to, function, seed) ==
    new_from_signed_states(SignedIntermediateState_sign_with_seed(from, seed),
                           SignedIntermediateState_sign_with_seed(to, seed),
                           function)

\* i32::to_le_bytes
to_le_bytes(num) == [i \in 1..4 |-> (num \div Pow2(8 * (i - 1))) % 256]

\* the bytes of one instruction of a witness script: OP_1..OP_16 classify as
\* PushNum, everything else pushed is PushBytes
instruction_bytes(ins) ==
    IF IsHash(ins.arg) THEN <<ins.arg>>
    ELSE IF ins.arg >= 1 /\ ins.arg <= 16
         THEN SelectSeq(to_le_bytes(ins.arg), LAMBDA b : b # 0)
    ELSE scriptint_vec(ins.arg)

witness_elements(ds) ==
    LET w == script_witness(ds)
    IN [i \in 1..Len(w) |-> instruction_bytes(w[i])]

from_state_at_same_index(input, sr, i) ==
    IF i = 1 THEN from_inject_script(input) ELSE sr.intermediate_states[i]

\* the `from` state of shard i (1-based): match i { 0 => inject, _ => states[i - 1] }
from_state_at(input, sr, i) ==
    IF i = 1 THEN from_inject_script(input) ELSE sr.intermediate_states[i - 1]

\* elements signed by the constructor calls before script i
RECURSIVE drawn_before(_, _, _)
drawn_before(input, sr, i) ==
    IF i = 1 THEN 0
    ELSE drawn_before(input, sr, i - 1)
         + size(from_state_at(input, sr, i - 1)) + size(sr.intermediate_states[i - 1])

NoScripts == [tag |-> "none", by |-> "none", scripts |-> <<>>, id |-> 0]
ScriptsPanic(by) == [tag |-> "panic", by |-> by, scripts |-> <<>>, id |-> 0]

\* the constructor handed to disprove_scripts_with_constructor:
\* DisproveScript::new, or the closure calling new_with_seed with a seed
Constructor_new == [with_seed |-> FALSE, seed |-> 0]
Constructor_new_with_seed(seed) == [with_seed |-> TRUE, seed |-> seed]

construct_unseeded(constructor, from, to, function, drawn) ==
    DisproveScript_new(from, to, function, drawn)

construct(constructor, from, to, function, drawn) ==
    IF constructor.with_seed
    THEN DisproveScript_new_with_seed(from, to, function, constructor.seed)
    ELSE DisproveScript_new(from, to, function, drawn)

\* the vector built, or the panic of the length assertion or of a signing
disprove_scripts_with_constructor(input, sr, constructor) ==
    IF Len(sr.shards) # Len(sr.intermediate_states) THEN [ok |-> FALSE, scripts |-> <<>>]
    ELSE IF \E i \in 1..Len(sr.shards) :
                ~signable(from_state_at(input, sr, i)) \/ ~signable(sr.intermediate_states[i])
         THEN [ok |-> FALSE, scripts |-> <<>>]
    ELSE [ok |-> TRUE,
          scripts |-> [i \in 1..Len(sr.shards) |->
              construct(constructor, from_state_at(input, sr, i), sr.intermediate_states[i],
                        sr.shards[i], drawn_before(input, sr, i))]]

(***************************************************************************)
(* nero-core : disprove/mod.rs                                             *)
(***************************************************************************)
tuple_windows(seq) == [j \in 1..(Len(seq) - 1) |-> <<seq[j], seq[j + 1]>>]

zip(a, b) == [j \in 1..Min(Len(a), Len(b)) |-> <<a[j], b[j]>>]

nero_zipped(input, sr) ==
    zip(tuple_windows(<<from_inject_script(input)>> \o sr.intermediate_states), sr.shards)

\* elements signed before script j is constructed
RECURSIVE nero_drawn_before(_, _)
nero_drawn_before(zipped, j) ==
    IF j = 1 THEN 0
    ELSE nero_drawn_before(zipped, j - 1)
         + size(zipped[j - 1][1][1]) + size(zipped[j - 1][1][2])

nero_collect(zipped, constructor) ==
    [j \in 1..Len(zipped) |->
        construct(constructor, zipped[j][1][1], zipped[j][1][2], zipped[j][2],
                  nero_drawn_before(zipped, j))]

nero_disprove_scripts_with_constructor(input, sr, constructor) ==
    IF Len(sr.shards) # Len(sr.intermediate_states) THEN [ok |-> FALSE, scripts |-> <<>>]
    ELSE [ok |-> TRUE, scripts |-> nero_collect(nero_zipped(input, sr), constructor)]

\* S::default_split of the implementor: the trait's, or an override with hand-built shards
Implementor(override, cuts) == [override |-> override, cuts |-> cuts]

S_default_split(impl, input, split_type) ==
    IF impl.override
    THEN override_default_split(CutShards(program, impl.cuts), input)
    ELSE trait_default_split(input, split_type)

\* value of a form_disprove_scripts* call: the scripts with the index returned,
\* together with the split it made and the distortion it applied
Formed(by, sr, dist, built, id) ==
    [sr |-> sr, distorted |-> dist,
     out |-> IF built.ok THEN [tag |-> "ok", by |-> by, scripts |-> built.scripts, id |-> id]
             ELSE ScriptsPanic(by)]

NotBuilt == [ok |-> FALSE, scripts |-> <<>>]

\* the calls after the split: build the scripts of the split result
build_scripts(by, input, sr, constructor) ==
    IF sr.tag # "ok" THEN Formed(by, sr, NotDistorted, NotBuilt, 0)
    ELSE Formed(by, sr, NotDistorted,
                disprove_scripts_with_constructor(input, sr, constructor), 0)

build_undistorted(by, input, sr, d, constructor) ==
    IF d.tag # "ok" THEN Formed(by, sr, d, NotBuilt, 0)
    ELSE Formed(by, sr, d, disprove_scripts_with_constructor(input, sr, constructor), d.id)

\* the calls after the distortion: build the scripts of the distorted result
build_distorted(by, input, sr, d, constructor) ==
    IF d.tag # "ok" THEN Formed(by, sr, d, NotBuilt, 0)
    ELSE Formed(by, sr, d, disprove_scripts_with_constructor(input, d.result, constructor), d.id)

distort_and_build(by, input, sr, rand, constructor) ==
    build_distorted(by, input, sr, IF sr.tag = "ok" THEN distort(sr, rand) ELSE Panic,
                    constructor)

form_disprove_scripts(impl, input) ==
    build_scripts("form_disprove_scripts", input,
                  S_default_split(impl, input, SplitType_default), Constructor_new)

distort_and_build_undistorted(by, input, sr, rand, constructor) ==
    build_undistorted(by, input, sr, IF sr.tag = "ok" THEN distort(sr, rand) ELSE Panic,
                      constructor)

form_disprove_scripts_distorted_unused(impl, input, rand) ==
    distort_and_build_undistorted("form_disprove_scripts_distorted", input,
                                  S_default_split(impl, input, SplitType_default), rand,
                                  Constructor_new)

form_disprove_scripts_distorted(impl, input, rand) ==
    distort_and_build("form_disprove_scripts_distorted", input,
                      S_default_split(impl, input, SplitType_default), rand,
                      Constructor_new)

form_disprove_scripts_with_seed(impl, input, seed) ==
    build_scripts("form_disprove_scripts_with_seed", input,
                  S_default_split(impl, input, SplitType_default),
                  Constructor_new_with_seed(seed))

form_disprove_scripts_distorted_with_seed(impl, input, seed, rand) ==
    distort_and_build("form_disprove_scripts_distorted_with_seed", input,
                      S_default_split(impl, input, SplitType_default), rand,
                      Constructor_new_with_seed(seed))

(***************************************************************************)
(* Inputs of the model                                                     *)
(***************************************************************************)
WidePush == 17      \* a number whose push takes two bytes

Instructions ==
    {Push(0), Push(WidePush), Op("OP_ADD"), Op("OP_DROP"),
     Op("OP_TOALTSTACK"), Op("OP_FROMALTSTACK")}

Programs == UNION {[1..n -> Instructions] : n \in 0..MaxProgLen}

Inputs == UNION {[1..n -> {Push(v) : v \in 1..MaxValue}] : n \in 0..MaxInputLen}

\* the variables of the other specifications, as they are before any of their steps
SeededUnused == seed_used = 0 /\ regenerated = NoScripts

SplitterUnused == split_type_used = "none" /\ chunk_size_used = 0 /\ complexity = -1

NoSignature == <<>>
NotRun == [tag |-> "none", ok |-> FALSE, stack |-> <<>>, alt |-> <<>>]

NotForged == [tag |-> "none", target |-> 0, verdict |-> "none"]

WinternitzUnused ==
    /\ message = 0
    /\ secret_key = 0
    /\ signature = NoSignature
    /\ verified = "none"
    /\ recovered = NotRun
    /\ forged = NotForged

NoMessage == [tag |-> "none", digits |-> <<>>]

GenericUnused == msg_bytes = <<>> /\ encoded = NoMessage

NoConfig == [tag |-> "none"]
NoContext == [tag |-> "none"]
NoChain == <<>>

ProtocolUnused == config = NoConfig /\ context = NoContext /\ height = 0 /\ confirmed = NoChain

Init ==
    /\ program \in Programs
    /\ program_input \in Inputs
    /\ split_result = NoResult
    /\ origin = "none"
    /\ random = 0
    /\ distorted = NotDistorted
    /\ disprove_scripts = NoScripts
    /\ verdicts = <<>>
    /\ SeededUnused
    /\ SplitterUnused
    /\ WinternitzUnused
    /\ GenericUnused
    /\ ProtocolUnused

Split(split_type, chunk_size) ==
    /\ split_result.tag = "none"
    /\ split_result' = split(program_input, split_type, chunk_size)
    /\ origin' = "split"
    /\ UNCHANGED <<program, program_input, random, distorted, disprove_scripts, verdicts>>
    /\ UNCHANGED <<seeded_vars, splitter_vars, winternitz_vars, generic_vars, protocol_vars>>

DefaultSplit(split_type) ==
    /\ split_result.tag = "none"
    /\ split_result' = trait_default_split(program_input, split_type)
    /\ origin' = "default_split"
    /\ UNCHANGED <<program, program_input, random, distorted, disprove_scripts, verdicts>>
    /\ UNCHANGED <<seeded_vars, splitter_vars, winternitz_vars, generic_vars, protocol_vars>>

OverrideDefaultSplit(cuts) ==
    /\ split_result.tag = "none"
    /\ Len(program) > 0
    /\ split_result' = override_default_split(CutShards(program, cuts), program_input)
    /\ origin' = "override"
    /\ UNCHANGED <<program, program_input, random, distorted, disprove_scripts, verdicts>>
    /\ UNCHANGED <<seeded_vars, splitter_vars, winternitz_vars, generic_vars, protocol_vars>>

\* SplitResult::new on caller-supplied vectors
New(n_shards, n_states) ==
    /\ split_result.tag = "none"
    /\ LET shards == split_into_shards(program, 1, SplitType_default)
           formed == form_states_from_shards(shards, program_input)
       IN split_result' = SplitResult_new(Prefix(shards, n_shards), Prefix(formed.states, n_states))
    /\ origin' = "new"
    /\ UNCHANGED <<program, program_input, random, distorted, disprove_scripts, verdicts>>
    /\ UNCHANGED <<seeded_vars, splitter_vars, winternitz_vars, generic_vars, protocol_vars>>

Distort(rand) ==
    /\ split_result.tag = "ok"
    /\ distorted.tag = "none"
    /\ disprove_scripts.tag = "none"
    /\ distorted' = distort(split_result, rand)
    /\ random' = rand
    /\ UNCHANGED <<program, program_input, split_result, origin, disprove_scripts, verdicts>>
    /\ UNCHANGED <<seeded_vars, splitter_vars, winternitz_vars, generic_vars, protocol_vars>>

\* states a prover may claim in place of the state `out`
ReplaceAt(seq, i, e) == [seq EXCEPT ![i] = e]

ClaimedStates(out) ==
    {out}
    \cup {[out EXCEPT !.stack = ReplaceAt(out.stack, i, scriptint_vec(v))] :
              i \in 1..Len(out.stack), v \in 0..MaxValue}
    \cup {[out EXCEPT !.altstack = ReplaceAt(out.altstack, i, scriptint_vec(v))] :
              i \in 1..Len(out.altstack), v \in 0..MaxValue}
    \cup {[out EXCEPT !.stack = Append(out.stack, scriptint_vec(MaxValue))],
          [out EXCEPT !.altstack = Append(out.altstack, scriptint_vec(MaxValue))],
          [out EXCEPT !.stack = Prefix(out.stack, Len(out.stack) - 1)],
          [out EXCEPT !.altstack = Prefix(out.altstack, Len(out.altstack) - 1)]}

Implementors ==
    {Implementor(FALSE, {})}
    \cup {Implementor(TRUE, cuts) : cuts \in SUBSET (1..(Len(program) - 1))}

OriginOf(impl) == IF impl.override THEN "override" ELSE "default_split"

Install(formed, impl) ==
    /\ split_result' = formed.sr
    /\ origin' = OriginOf(impl)
    /\ distorted' = formed.distorted
    /\ disprove_scripts' = formed.out

FormDisproveScripts(impl) ==
    /\ split_result.tag = "none"
    /\ Len(program) > 0
    /\ Install(form_disprove_scripts(impl, program_input), impl)
    /\ UNCHANGED <<program, program_input, random, verdicts>>
    /\ UNCHANGED <<seeded_vars, splitter_vars, winternitz_vars, generic_vars, protocol_vars>>

FormDisproveScriptsDistorted(impl, rand) ==
    /\ split_result.tag = "none"
    /\ Len(program) > 0
    /\ Install(form_disprove_scripts_distorted(impl, program_input, rand), impl)
    /\ random' = rand
    /\ UNCHANGED <<program, program_input, verdicts>>
    /\ UNCHANGED <<seeded_vars, splitter_vars, winternitz_vars, generic_vars, protocol_vars>>

FormDisproveScriptsWithSeed(impl, seed) ==
    /\ split_result.tag = "none"
    /\ Len(program) > 0
    /\ Install(form_disprove_scripts_with_seed(impl, program_input, seed), impl)
    /\ UNCHANGED <<program, program_input, random, verdicts>>
    /\ UNCHANGED <<seeded_vars, splitter_vars, winternitz_vars, generic_vars, protocol_vars>>

FormDisproveScriptsDistortedWithSeed(impl, seed, rand) ==
    /\ split_result.tag = "none"
    /\ Len(program) > 0
    /\ Install(form_disprove_scripts_distorted_with_seed(impl, program_input, seed, rand), impl)
    /\ random' = rand
    /\ UNCHANGED <<program, program_input, verdicts>>
    /\ UNCHANGED <<seeded_vars, splitter_vars, winternitz_vars, generic_vars, protocol_vars>>

\* DisproveScript::new on the triple of shard i with a claimed output state
NewDisproveScript(i) ==
    /\ split_result.tag = "ok"
    /\ origin = "split"
    /\ distorted.tag = "none"
    /\ disprove_scripts.tag = "none"
    /\ i \in 1..Len(split_result.shards)
    /\ \E to \in ClaimedStates(split_result.intermediate_states[i]) :
       LET from == from_state_at(program_input, split_result, i)
       IN disprove_scripts' =
              IF signable(from) /\ signable(to)
              THEN [tag |-> "ok", by |-> "new", id |-> i - 1,
                    scripts |-> <<DisproveScript_new(from, to, split_result.shards[i], 0)>>]
              ELSE ScriptsPanic("new")
    /\ UNCHANGED <<program, program_input, split_result, origin, random, distorted, verdicts>>
    /\ UNCHANGED <<seeded_vars, splitter_vars, winternitz_vars, generic_vars, protocol_vars>>

NewDisproveScriptWithSeed(i, seed) ==
    /\ split_result.tag = "ok"
    /\ origin = "split"
    /\ distorted.tag = "none"
    /\ disprove_scripts.tag = "none"
    /\ i \in 1..Len(split_result.shards)
    /\ \E to \in ClaimedStates(split_result.intermediate_states[i]) :
       LET from == from_state_at(program_input, split_result, i)
       IN disprove_scripts' =
              IF signable(from) /\ signable(to)
              THEN [tag |-> "ok", by |-> "new_with_seed", id |-> i - 1,
                    scripts |-> <<DisproveScript_new_with_seed(from, to, split_result.shards[i], seed)>>]
              ELSE ScriptsPanic("new_with_seed")
    /\ UNCHANGED <<program, program_input, split_result, origin, random, distorted, verdicts>>
    /\ UNCHANGED <<seeded_vars, splitter_vars, winternitz_vars, generic_vars, protocol_vars>>

\* witness followed by script_pubkey, as the script interpreter runs a spend
verdict_of(r) == [ok |-> r.ok, stack |-> r.stack, success |-> success(r)]

Verdict(ds) == verdict_of(execute_script(script_witness(ds) \o script_pubkey(ds)))

ExecuteDisproveScripts ==
    /\ disprove_scripts.tag = "ok"
    /\ Len(disprove_scripts.scripts) > 0
    /\ verdicts = <<>>
    /\ verdicts' = [i \in 1..Len(disprove_scripts.scripts) |-> Verdict(disprove_scripts.scripts[i])]
    /\ UNCHANGED <<program, program_input, split_result, origin, random, distorted, disprove_scripts>>
    /\ UNCHANGED <<seeded_vars, splitter_vars, winternitz_vars, generic_vars, protocol_vars>>

Next ==
    \/ \E t \in SplitTypes, c \in 0..MaxChunk : Split(t, c)
    \/ \E t \in SplitTypes : DefaultSplit(t)
    \/ \E cuts \in SUBSET (1..(Len(program) - 1)) : OverrideDefaultSplit(cuts)
    \/ \E a \in 0..MaxNewLen, b \in 0..MaxNewLen : New(a, b)
    \/ \E r \in 0..MaxRandom : Distort(r)
    \/ \E impl \in Implementors : FormDisproveScripts(impl)
    \/ \E impl \in Implementors, r \in 0..MaxRandom : FormDisproveScriptsDistorted(impl, r)
    \/ \E impl \in Implementors, seed \in 0..MaxSeed : FormDisproveScriptsWithSeed(impl, seed)
    \/ \E impl \in Implementors, seed \in 0..MaxSeed, r \in 0..MaxRandom :
           FormDisproveScriptsDistortedWithSeed(impl, seed, r)
    \/ \E i \in 1..MaxProgLen : NewDisproveScript(i)
    \/ \E i \in 1..MaxProgLen, seed \in 0..MaxSeed : NewDisproveScriptWithSeed(i, seed)
    \/ ExecuteDisproveScripts

Spec == Init /\ [][Next]_vars

(***************************************************************************)
(* Properties of the splitter                                              *)
(***************************************************************************)
FromSplit == split_result.tag = "ok" /\ origin \in {"split", "default_split"}
FromSplitOrOverride == split_result.tag = "ok" /\ origin \in {"split", "default_split", "override"}

Last(seq) == seq[Len(seq)]

SameEnd(direct, replay, states) ==
    /\ direct.ok
    /\ replay.ok
    /\ replay.stack = direct.stack
    /\ replay.alt = direct.alt
    /\ Len(states) > 0
    /\ Last(states) = from_exec(direct)

\* C1: in every SplitResult returned by split or default_split, running the
\* shards one after another from the input ends in the state of the direct run
\* of the program on the input (both stacks equal), and that state is the last
\* intermediate state.
C1_ReplayInvariant ==
    FromSplit =>
        SameEnd(Exec(program, Exec(program_input, EmptyExec)),
                Exec(Concat(split_result.shards), Exec(program_input, EmptyExec)),
                split_result.intermediate_states)

C1_Witness ==
    /\ FromSplit
    /\ origin = "split"
    /\ Len(program) = 3
    /\ Len(split_result.shards) = 2
    /\ Len(Last(split_result.intermediate_states).stack) > 0
    /\ Len(Last(split_result.intermediate_states).altstack) > 0

\* the state before shard i: the pushed input elements, or the state i - 1
InputState ==
    IntermediateState([j \in 1..Len(program_input) |-> scriptint_vec(program_input[j].arg)], <<>>)

StateBefore(sr, i) == IF i = 1 THEN InputState ELSE sr.intermediate_states[i - 1]

Yields(r, state) == r.ok /\ from_exec(r) = state

C5_LengthInvariant ==
    /\ split_result.tag = "ok" =>
           Len(split_result.shards) = Len(split_result.intermediate_states)
    /\ distorted.tag = "ok" =>
           Len(distorted.result.shards) = Len(distorted.result.intermediate_states)

\* C7: when distort succeeds on a SplitResult, the index is within [0, len),
\* the state at the index keeps its numbers of main-stack and alt-stack
\* elements, and it differs from the original one in its top main-stack element.
C7_DistortBreaksValue ==
    (FromSplitOrOverride /\ distorted.tag = "ok") =>
        LET before == split_result.intermediate_states[distorted.id + 1]
            after == distorted.result.intermediate_states[distorted.id + 1]
        IN /\ distorted.id >= 0
           /\ distorted.id < len(split_result)
           /\ Len(after.stack) = Len(before.stack)
           /\ Len(after.altstack) = Len(before.altstack)
           /\ after # before
           /\ Last(after.stack) # Last(before.stack)

\* the cases in which distort must fail: no shards, or an empty main stack at
\* the index chosen by the random number
MustFail(sr, rand) ==
    IF Len(sr.shards) = 0 THEN TRUE
    ELSE /\ rand % Len(sr.shards) < Len(sr.intermediate_states)
         /\ Len(sr.intermediate_states[(rand % Len(sr.shards)) + 1].stack) = 0

\* C8: a call of distort on a SplitResult without shards, or whose state at
\* the chosen index has an empty main stack, returns no SplitResult and leaves
\* the receiver as it was.
C8_DistortFailsFast ==
    [][(/\ split_result.tag = "ok"
        /\ distorted.tag = "none"
        /\ distorted'.tag # "none"
        /\ MustFail(split_result, random'))
       => (/\ distorted'.tag = "panic"
           /\ distorted'.result = NoResult
           /\ split_result' = split_result)]_vars

C8_Witness ==
    /\ split_result.tag = "ok"
    /\ distorted.tag = "panic"
    /\ Len(split_result.shards) = 3
    /\ Len(split_result.intermediate_states) = 3
    /\ random = 1
    /\ Len(split_result.intermediate_states[2].stack) = 0
    /\ Len(split_result.intermediate_states[2].altstack) > 0

(***************************************************************************)
(* Properties of the disprove scripts                                      *)
(***************************************************************************)
\* the IntermediateState a SignedIntermediateState commits to
Unsigned(signed) ==
    IntermediateState(
        [i \in 1..Len(signed.stack) |-> scriptint_vec(signed.stack[i].stack_element)],
        [i \in 1..Len(signed.altstack) |-> scriptint_vec(signed.altstack[i].stack_element)])

\* the run of the function of a script on its from state
ActualRun(ds) == Exec(ds.function, Machine(Unsigned(ds.from)))

SameShape(a, b) == Len(a.stack) = Len(b.stack) /\ Len(a.altstack) = Len(b.altstack)

Executed == disprove_scripts.tag = "ok" /\ Len(verdicts) = Len(disprove_scripts.scripts)

Rejected(verdict) == verdict.ok /\ verdict.stack = <<0>> /\ ~verdict.success

Sound(ds, r, verdict) == (r.ok /\ from_exec(r) = Unsigned(ds.to)) => Rejected(verdict)

\* C2: for a script built by DisproveScript::new or new_with_seed from a triple
\* in which the function run on from yields exactly to, the verifier run on
\* the script's witness ends without error with the single element false.
C2_DisproveSoundness ==
    Executed =>
        \A i \in 1..Len(verdicts) :
            Sound(disprove_scripts.scripts[i], ActualRun(disprove_scripts.scripts[i]), verdicts[i])

CorrectTriple(ds, r) == r.ok /\ from_exec(r) = Unsigned(ds.to)

C2_Witness ==
    /\ Executed
    /\ disprove_scripts.by = "new_with_seed"
    /\ Len(verdicts) = 1
    /\ CorrectTriple(disprove_scripts.scripts[1], ActualRun(disprove_scripts.scripts[1]))
    /\ Len(disprove_scripts.scripts[1].to.stack) = 0
    /\ Len(disprove_scripts.scripts[1].to.altstack) = 2
    /\ Rejected(verdicts[1])

Decides(ds, r, verdict) ==
    (r.ok /\ SameShape(from_exec(r), Unsigned(ds.to)))
        => (verdict.success <=> from_exec(r) # Unsigned(ds.to))

\* C3: when the function run on from ends in a state of the shape of to, the
\* verifier run on the script's witness succeeds exactly if some element of
\* that state differs from the element of to at its place.
C3_VerifierDecides ==
    Executed =>
        \A i \in 1..Len(verdicts) :
            Decides(disprove_scripts.scripts[i], ActualRun(disprove_scripts.scripts[i]), verdicts[i])

AltOnlyDifference(ds, r) ==
    /\ r.ok
    /\ SameShape(from_exec(r), Unsigned(ds.to))
    /\ Len(ds.to.stack) > 0
    /\ from_exec(r).stack = Unsigned(ds.to).stack
    /\ from_exec(r).altstack # Unsigned(ds.to).altstack

C3_Witness ==
    /\ Executed
    /\ Len(verdicts) = 1
    /\ AltOnlyDifference(disprove_scripts.scripts[1], ActualRun(disprove_scripts.scripts[1]))
    /\ verdicts[1].success

FormedDistorted ==
    /\ Executed
    /\ distorted.tag = "ok"
    /\ disprove_scripts.by \in {"form_disprove_scripts_distorted",
                                "form_disprove_scripts_distorted_with_seed"}

FormedScripts ==
    /\ disprove_scripts.tag = "ok"
    /\ disprove_scripts.by \in {"form_disprove_scripts", "form_disprove_scripts_distorted",
                                "form_disprove_scripts_with_seed",
                                "form_disprove_scripts_distorted_with_seed"}

\* the SplitResult the scripts were built of
BuiltOf == IF distorted.tag = "ok" THEN distorted.result ELSE split_result

Triple(ds) == <<Unsigned(ds.from), Unsigned(ds.to), ds.function>>

TriplesOf(scripts) == [i \in 1..Len(scripts) |-> Triple(scripts[i])]

NeroTriples(built) == TriplesOf(built.scripts)

ConstructorUsed ==
    IF disprove_scripts.by \in {"form_disprove_scripts_with_seed",
                                "form_disprove_scripts_distorted_with_seed"}
    THEN Constructor_new_with_seed(0)
    ELSE Constructor_new

\* C9: form_disprove_scripts and its variants return one script per shard, in
\* shard order, script i made of state i - 1 (the injected input for the first),
\* state i and shard i; the tuple_windows/zip construction yields the same triples.
C9_OneScriptPerShard ==
    FormedScripts =>
        /\ Len(disprove_scripts.scripts) = Len(BuiltOf.shards)
        /\ \A i \in 1..Len(disprove_scripts.scripts) :
               Triple(disprove_scripts.scripts[i])
                   = <<StateBefore(BuiltOf, i), BuiltOf.intermediate_states[i], BuiltOf.shards[i]>>
        /\ TriplesOf(disprove_scripts.scripts)
               = NeroTriples(nero_disprove_scripts_with_constructor(program_input, BuiltOf,
                                                                    ConstructorUsed))

C9_Witness ==
    /\ FormedScripts
    /\ disprove_scripts.by = "form_disprove_scripts_distorted_with_seed"
    /\ Len(disprove_scripts.scripts) = 3
    /\ disprove_scripts.id = 1

Reverse(seq) == [i \in 1..Len(seq) |-> seq[Len(seq) + 1 - i]]

\* committed elements in the order of the witness
CommittedElements(ds) ==
    ds.from.stack \o Reverse(ds.from.altstack) \o ds.to.stack \o Reverse(ds.to.altstack)

RECURSIVE LimbSum(_, _)
LimbSum(value, n) ==
    IF n = 0 THEN 0 ELSE LimbSum(value, n - 1) + ((value \div Pow2(4 * (n - 1))) % 16)

\* digit `limb` (0-based) of the encoding of a value: 8 limbs, then the checksum
DigitOf(value, limb) ==
    IF limb < N0 THEN (value \div Pow2(4 * limb)) % 16
    ELSE IF limb = N0 THEN (D * N0 - LimbSum(value, N0)) % 16
    ELSE (D * N0 - LimbSum(value, N0)) \div 16

\* byte array q (1..2N) of a committed element: signature and digit of the
\* limbs N - 1 down to 0
CommittedArray(element, q) ==
    LET limb == N - ((q + 1) \div 2)
        digit == DigitOf(element.stack_element, limb)
    IN IF q % 2 = 1 THEN <<ChainHash(element.key, limb, digit)>>
       ELSE IF digit = 0 THEN <<>> ELSE <<digit>>

ExpectedWitness(elements) ==
    [q \in 1..(2 * N * Len(elements)) |->
        CommittedArray(elements[((q - 1) \div (2 * N)) + 1], ((q - 1) % (2 * N)) + 1)]

WitnessAsClaimed(ds, elements) ==
    /\ Len(elements) = 2 * N * (total_len(ds.from) + total_len(ds.to))
    /\ elements = ExpectedWitness(CommittedElements(ds))

\* C10: the witness of a DisproveScript holds the (signature, digit) pairs of
\* the from state and then of the to state, main stack in stack order and then
\* alt stack reversed; witness_elements returns them in that order, 2 * N
\* byte arrays per committed element.
C10_WitnessLayout ==
    disprove_scripts.tag = "ok" =>
        \A i \in 1..Len(disprove_scripts.scripts) :
            WitnessAsClaimed(disprove_scripts.scripts[i],
                             witness_elements(disprove_scripts.scripts[i]))

C10_Witness ==
    /\ disprove_scripts.tag = "ok"
    /\ disprove_scripts.by = "form_disprove_scripts"
    /\ Len(disprove_scripts.scripts) = 3
    /\ Len(disprove_scripts.scripts[3].from.altstack) = 2
    /\ Len(disprove_scripts.scripts[3].from.stack) = 0
    /\ Len(disprove_scripts.scripts[3].to.altstack) = 2
    /\ Len(disprove_scripts.scripts[3].to.stack) = 1

(***************************************************************************)
(* Seeded construction called twice                                        *)
(***************************************************************************)
\* the cut positions an override used, read off the shards it returned
CutsOf(shards) ==
    {Len(Concat(SubSeq(shards, 1, j))) : j \in 1..(Len(shards) - 1)}

\* the implementor that produced split_result
ImplementorUsed ==
    IF origin = "override" THEN Implementor(TRUE, CutsOf(split_result.shards))
    ELSE Implementor(FALSE, {})

SeededNew(i, seed) ==
    /\ split_result.tag = "ok"
    /\ origin = "split"
    /\ disprove_scripts.tag = "none"
    /\ i \in 1..Len(split_result.shards)
    /\ \E to \in ClaimedStates(split_result.intermediate_states[i]) :
       LET from == from_state_at(program_input, split_result, i)
       IN /\ signable(from) /\ signable(to)
          /\ disprove_scripts' =
                 [tag |-> "ok", by |-> "new_with_seed", id |-> i - 1,
                  scripts |-> <<DisproveScript_new_with_seed(from, to, split_result.shards[i], seed)>>]
    /\ seed_used' = seed
    /\ UNCHANGED <<program, program_input, split_result, origin, random, distorted, verdicts>>
    /\ UNCHANGED <<regenerated, splitter_vars, winternitz_vars, generic_vars, protocol_vars>>

SeededForm(impl, seed) ==
    /\ split_result.tag = "none"
    /\ Len(program) > 0
    /\ Install(form_disprove_scripts_with_seed(impl, program_input, seed), impl)
    /\ seed_used' = seed
    /\ UNCHANGED <<program, program_input, random, verdicts>>
    /\ UNCHANGED <<regenerated, splitter_vars, winternitz_vars, generic_vars, protocol_vars>>

\* the second call, with the arguments of the first
RegenerateNew ==
    /\ disprove_scripts.tag = "ok"
    /\ disprove_scripts.by = "new_with_seed"
    /\ regenerated.tag = "none"
    /\ LET ds == disprove_scripts.scripts[1]
       IN regenerated' =
              [disprove_scripts EXCEPT !.scripts =
                  <<construct(Constructor_new_with_seed(seed_used), Unsigned(ds.from),
                              Unsigned(ds.to), ds.function, 0)>>]
    /\ UNCHANGED <<program, program_input, split_result, origin, random, distorted,
                   disprove_scripts, verdicts, seed_used, splitter_vars, winternitz_vars, generic_vars, protocol_vars>>

RegenerateForm ==
    /\ disprove_scripts.tag = "ok"
    /\ disprove_scripts.by = "form_disprove_scripts_with_seed"
    /\ regenerated.tag = "none"
    /\ regenerated' = form_disprove_scripts_with_seed(ImplementorUsed, program_input, seed_used).out
    /\ UNCHANGED <<program, program_input, split_result, origin, random, distorted,
                   disprove_scripts, verdicts, seed_used, splitter_vars, winternitz_vars, generic_vars, protocol_vars>>

SeededNext ==
    \/ \E t \in SplitTypes, c \in 1..MaxChunk : Split(t, c)
    \/ \E i \in 1..MaxProgLen, seed \in 0..MaxSeed : SeededNew(i, seed)
    \/ \E impl \in Implementors, seed \in 0..MaxSeed : SeededForm(impl, seed)
    \/ RegenerateNew
    \/ RegenerateForm

SeededSpec == Init /\ [][SeededNext]_vars

MaxSplitterProgLen == 4
MaxSplitterChunk == 4

STACK_SIZE_INDEX == 10

NotMeasured == -1
ComplexityPanic == -2

\* the summand of one shard, i counted from 1
shard_complexity(self, i) ==
    LET shard_size == script_size(self.shards[i])
        current_state_size == size(self.intermediate_states[i])
        previous_state_size == IF i > 1 THEN size(self.intermediate_states[i - 1]) ELSE 0
    IN shard_size + (current_state_size + previous_state_size) * STACK_SIZE_INDEX

shard_complexity_without_previous(self, i) ==
    script_size(self.shards[i]) + size(self.intermediate_states[i]) * STACK_SIZE_INDEX

RECURSIVE resultant_complexity(_, _)
resultant_complexity(self, n) ==
    IF n = 0 THEN 0
    ELSE Max(resultant_complexity(self, n - 1), shard_complexity(self, n))

RECURSIVE summed_complexity(_, _)
summed_complexity(self, n) ==
    IF n = 0 THEN 0
    ELSE summed_complexity(self, n - 1) + shard_complexity(self, n)

RECURSIVE resultant_complexity_without_previous(_, _)
resultant_complexity_without_previous(self, n) ==
    IF n = 0 THEN 0
    ELSE Max(resultant_complexity_without_previous(self, n - 1),
             shard_complexity_without_previous(self, n))

complexity_index_without_previous(self) ==
    IF Len(self.shards) < len(self) THEN ComplexityPanic
    ELSE resultant_complexity_without_previous(self, len(self))

complexity_index_summed(self) ==
    IF Len(self.shards) < len(self) THEN ComplexityPanic
    ELSE summed_complexity(self, len(self))

complexity_index_of_shards(self) ==
    IF Len(self.shards) < len(self) THEN ComplexityPanic
    ELSE script_size(Concat(self.shards)) \div Max(1, Len(self.shards))

\* SplitResult::complexity_index; shards[i] is out of bounds when there are
\* fewer shards than states
complexity_index(self) ==
    IF Len(self.shards) < len(self) THEN ComplexityPanic
    ELSE resultant_complexity(self, len(self))

\* split/core.rs, fuzzy_split: the chunk sizes tried, the ceiling every shard
\* has to stay within, and the choice of the least complex candidate
MaxPerturbation == 2
SCRIPT_SIZE_CEILING == 45

FuzzyCandidates == {DEFAULT_CHUNK_SIZE + k : k \in 0..MaxPerturbation}

SearchExhausted == [tag |-> "exhausted", shards |-> <<>>, intermediate_states |-> <<>>]

candidate_of(chunk_size, result) ==
    [chunk_size |-> chunk_size,
     result |-> result,
     complexity |-> IF result.tag = "ok" THEN complexity_index(result) ELSE ComplexityPanic]

fuzzy_candidates(input, script, split_type) ==
    {candidate_of(c, naive_split(input, script, split_type, c)) : c \in FuzzyCandidates}

within_ceiling(candidate) ==
    /\ candidate.result.tag = "ok"
    /\ \A i \in 1..len(candidate.result) :
           shard_complexity(candidate.result, i) <= SCRIPT_SIZE_CEILING

least_complex(candidates) ==
    CHOOSE x \in candidates :
        \A y \in candidates :
            \/ x.complexity < y.complexity
            \/ x.complexity = y.complexity /\ x.chunk_size <= y.chunk_size

fuzzy_search(candidates, admissible) ==
    IF \E x \in candidates : x.result.tag # "ok" THEN SplitFailure
    ELSE IF admissible = {} THEN SearchExhausted
    ELSE least_complex(admissible).result

admissible_of(candidates) == {x \in candidates : within_ceiling(x)}

fuzzy_search_of(candidates) == fuzzy_search(candidates, admissible_of(candidates))

fuzzy_split(input, script, split_type) ==
    fuzzy_search_of(fuzzy_candidates(input, script, split_type))

\* SplitableScript::fuzzy_split returns a SplitResult: an exhausted search
\* reaches the caller as a panic or as some SplitResult, the signature has
\* no other outcome
as_SplitResult(found, candidates) ==
    IF found.tag = "exhausted"
    THEN {SplitFailure, SplitResult(<<>>, <<>>), least_complex(candidates).result}
    ELSE {found}

trait_fuzzy_split_of(candidates) == as_SplitResult(fuzzy_search_of(candidates), candidates)

trait_fuzzy_split(input, split_type) ==
    trait_fuzzy_split_of(fuzzy_candidates(input, program, split_type))

SplitterInstructions == {Push(0), Push(WidePush), Op("OP_ADD"), Op("OP_DROP")}

SplitterPrograms == UNION {[1..n -> SplitterInstructions] : n \in 0..MaxSplitterProgLen}

SplitterInit ==
    /\ program \in SplitterPrograms
    /\ program_input \in Inputs
    /\ split_result = NoResult
    /\ origin = "none"
    /\ random = 0
    /\ distorted = NotDistorted
    /\ disprove_scripts = NoScripts
    /\ verdicts = <<>>
    /\ SeededUnused
    /\ split_type_used = "none" /\ chunk_size_used = 0 /\ complexity = NotMeasured
    /\ WinternitzUnused
    /\ GenericUnused
    /\ ProtocolUnused

SplitWith(split_type, chunk_size) ==
    /\ split_result.tag = "none"
    /\ split_result' = split(program_input, split_type, chunk_size)
    /\ origin' = "split"
    /\ split_type_used' = split_type
    /\ chunk_size_used' = chunk_size
    /\ UNCHANGED <<program, program_input, random, distorted, disprove_scripts, verdicts>>
    /\ UNCHANGED <<complexity, seeded_vars, winternitz_vars, generic_vars, protocol_vars>>

FuzzySplit(split_type) ==
    /\ split_result.tag = "none"
    /\ split_result' \in trait_fuzzy_split(program_input, split_type)
    /\ origin' = "fuzzy_split"
    /\ split_type_used' = split_type
    /\ UNCHANGED <<program, program_input, random, distorted, disprove_scripts, verdicts>>
    /\ UNCHANGED <<chunk_size_used, complexity, seeded_vars, winternitz_vars, generic_vars, protocol_vars>>

ComplexityIndex ==
    /\ split_result.tag = "ok"
    /\ complexity = NotMeasured
    /\ complexity' = complexity_index(split_result)
    /\ UNCHANGED <<program, program_input, split_result, origin, random, distorted,
                   disprove_scripts, verdicts>>
    /\ UNCHANGED <<split_type_used, chunk_size_used, seeded_vars, winternitz_vars, generic_vars, protocol_vars>>

SplitterNext ==
    \/ \E t \in SplitTypes, c \in 0..MaxSplitterChunk : SplitWith(t, c)
    \/ \E t \in SplitTypes : DefaultSplit(t)
    \/ \E cuts \in SUBSET (1..(Len(program) - 1)) : OverrideDefaultSplit(cuts)
    \/ \E t \in SplitTypes : FuzzySplit(t)
    \/ ComplexityIndex

SplitterSpec == SplitterInit /\ [][SplitterNext]_vars

(***************************************************************************)
(* Properties of the complexity estimator and of the splits                *)
(***************************************************************************)
Measured == complexity # NotMeasured

\* the summands as the estimator is specified, shard by shard
ClaimedSummands(sr) ==
    {script_size(sr.shards[i])
         + (size(sr.intermediate_states[i])
            + (IF i = 1 THEN 0 ELSE size(sr.intermediate_states[i - 1]))) * STACK_SIZE_INDEX :
     i \in 1..Len(sr.shards)}

ClaimedComplexity(sr) ==
    IF Len(sr.shards) = 0 THEN 0
    ELSE CHOOSE m \in ClaimedSummands(sr) : \A x \in ClaimedSummands(sr) : x <= m

ExampleSizes == <<2, 3, 3, 1>>

ExampleSplit ==
    SplitResult([i \in 1..4 |-> Repeat(<<Op("OP_ADD")>>, 250)],
                [i \in 1..4 |->
                    IntermediateState([j \in 1..ExampleSizes[i] |-> scriptint_vec(1)], <<>>)])

\* C12: complexity_index is the largest, over the shards, of the shard's byte
\* size plus STACK_SIZE_INDEX times the sizes of its state and of the state
\* before (0 before the first); 0 for an empty SplitResult; 310 for four shards
\* of 250 bytes with state sizes 2, 3, 3, 1.
C12_ComplexityIndex ==
    Measured =>
        /\ complexity = ClaimedComplexity(split_result)
        /\ complexity_index(SplitResult(<<>>, <<>>)) = 0
        /\ complexity_index(ExampleSplit) = 310

C12_Witness ==
    /\ Measured
    /\ Len(split_result.shards) = 3
    /\ size(split_result.intermediate_states[1]) = 3
    /\ size(split_result.intermediate_states[2]) = 4
    /\ size(split_result.intermediate_states[3]) = 3
    /\ complexity = script_size(split_result.shards[2]) + 7 * STACK_SIZE_INDEX

ComplexityAt(split_type, chunk_size) ==
    complexity_index(split(program_input, split_type, chunk_size))

\* the largest chunk size at which the complexity of the naive split is least
LargestMinimalChunk(split_type) ==
    CHOOSE c \in 1..MaxSplitterChunk :
        \A d \in 1..MaxSplitterChunk :
            \/ ComplexityAt(split_type, c) < ComplexityAt(split_type, d)
            \/ ComplexityAt(split_type, c) = ComplexityAt(split_type, d) /\ d <= c

MeasuredSplit == Measured /\ origin = "split" /\ chunk_size_used >= 1

\* C13 as stated: for a fixed program and input, the complexity of the naive
\* split does not grow when the chunk size is lowered by one, as long as the
\* chunk size stays at or above the one of least complexity.
C13_ComplexityMonotone ==
    (/\ MeasuredSplit
     /\ chunk_size_used - 1 >= LargestMinimalChunk(split_type_used))
        => ComplexityAt(split_type_used, chunk_size_used - 1) <= complexity

MaxOf(S) == IF S = {} THEN 0 ELSE CHOOSE m \in S : \A x \in S : x <= m

LargestInstruction == MaxOf({instruction_size(program[i]) : i \in 1..Len(program)})

\* the largest state met after any prefix of the program
LargestState ==
    MaxOf({size(from_exec(execute_script(program_input \o SubSeq(program, 1, n)))) :
           n \in 1..Len(program)})

ShardBudget(split_type, chunk_size) ==
    IF split_type = "ByInstructions" THEN chunk_size * LargestInstruction
    ELSE chunk_size - 1 + LargestInstruction

ComplexityBound(split_type, chunk_size) ==
    ShardBudget(split_type, chunk_size) + 2 * STACK_SIZE_INDEX * LargestState

\* C13 amended: the complexity of the naive split with chunk size c is at most
\* the byte budget of a shard plus twice STACK_SIZE_INDEX times the largest
\* state met while the program runs; this bound does not grow when the chunk
\* size is lowered, the complexity itself can.
C13_ComplexityBounded ==
    MeasuredSplit =>
        /\ complexity <= ComplexityBound(split_type_used, chunk_size_used)
        /\ chunk_size_used >= 2 =>
               ComplexityBound(split_type_used, chunk_size_used - 1)
                   <= ComplexityBound(split_type_used, chunk_size_used)

C13_Witness ==
    /\ MeasuredSplit
    /\ Len(program) = 4
    /\ chunk_size_used = 4
    /\ LargestMinimalChunk(split_type_used) = 2
    /\ ComplexityAt(split_type_used, 3) > complexity
    /\ complexity <= ComplexityBound(split_type_used, chunk_size_used)

ProgramSize(split_type) ==
    IF split_type = "ByInstructions" THEN Len(program) ELSE script_size(program)

ShardSize(shard, split_type) ==
    IF split_type = "ByInstructions" THEN Len(shard) ELSE script_size(shard)

Ceil(n, c) == (n + c - 1) \div c

NaiveSplitDone == origin = "split" /\ split_result.tag = "ok" /\ chunk_size_used >= 1

ClosedAtBudget(shard, split_type, chunk_size) ==
    /\ Len(shard) > 0
    /\ ShardSize(shard, split_type) >= chunk_size
    /\ ShardSize(SubSeq(shard, 1, Len(shard) - 1), split_type) < chunk_size

FuzzyReturned == origin = "fuzzy_split" /\ split_result.tag = "ok"

\* the candidates of the search, each with its naive split
CandidatesTried(split_type) ==
    {[chunk_size |-> c, result |-> split(program_input, split_type, c)] : c \in FuzzyCandidates}

StaysWithinCeiling(x) ==
    /\ x.result.tag = "ok"
    /\ \A v \in ClaimedSummands(x.result) : v <= SCRIPT_SIZE_CEILING

WithinCeiling(split_type) == {x \in CandidatesTried(split_type) : StaysWithinCeiling(x)}

FuzzyExhausted ==
    /\ origin = "fuzzy_split"
    /\ \A x \in CandidatesTried(split_type_used) : x.result.tag = "ok"
    /\ WithinCeiling(split_type_used) = {}

\* C16: when no candidate stays within the ceiling, fuzzy_split ends in an
\* outcome that is neither a crash nor a returned split.
C16_ExhaustionReported ==
    FuzzyExhausted => split_result.tag \notin {"error", "ok"}

ProgramFails == ~execute_script(program_input \o program).ok

MaxWinternitzSeed == 1

\* SecretKey::from_seed: the chunks of the key are a function of the seed
from_seed(seed) == seed

\* Message::into_u32 : the digits are below 16, so the OR of the shifted
\* digits is their sum
RECURSIVE into_u32_from(_, _)
into_u32_from(digits, i) ==
    IF i = N0 THEN 0
    ELSE digits[i + 1] * Pow2(BITS_PER_DIGIT * i) + into_u32_from(digits, i + 1)

into_u32(digits) == into_u32_from(digits, 0)

RECURSIVE hash_times(_, _)
hash_times(hash, times) == IF times = 0 THEN hash ELSE hash_times(Hash160(hash), times - 1)

\* PublicKey::verify
verify(pk, digits, sig) ==
    \A i \in 1..N : hash_times(sig[i], D - digits[i]) = pk[i]

\* zero limbs from the most significant one, the checksum limbs left out
RECURSIVE leading_zero_limbs(_, _)
leading_zero_limbs(digits, i) ==
    IF i = 0 THEN 0
    ELSE IF digits[i] # 0 THEN 0
    ELSE 1 + leading_zero_limbs(digits, i - 1)

count_zero_limbs_uncapped(digits) == leading_zero_limbs(digits, N0)

count_zero_limbs_from_left(digits) == Min(leading_zero_limbs(digits, N0), N0 - 1)

recovery_script_compact(digits) ==
    recovery_script_fixed_limbs(N0 - count_zero_limbs_from_left(digits))

to_script_sig_compact(sig, digits) ==
    to_script_sig_skipping(sig, digits, count_zero_limbs_from_left(digits))

\* PublicKey::checksig_verify_script_compact
PublicKey_checksig_verify_script_compact(pk, digits) ==
    checksig_verify_script_compact(count_zero_limbs_from_left(digits), pk)

\* values below 2^V: each limb alone at 1 and at its largest, and mixed ones
Messages ==
    {0, 2147483647, 305419896, 7 * Pow2(28), 2 * Pow2(28) + 3, 4660}
    \cup {Pow2(BITS_PER_DIGIT * i) : i \in 0..(N0 - 1)}
    \cup {D * Pow2(BITS_PER_DIGIT * i) : i \in 0..(N0 - 2)}

Run(tag, r) == [tag |-> tag, ok |-> r.ok, stack |-> r.stack, alt |-> r.alt]

\* the N0 message digits pushed with the least significant one on top
digits_script(digits) == [j \in 1..N0 |-> Push(digits[N0 + 1 - j])]

WinternitzInit ==
    /\ program = <<>>
    /\ program_input = <<>>
    /\ split_result = NoResult
    /\ origin = "none"
    /\ random = 0
    /\ distorted = NotDistorted
    /\ disprove_scripts = NoScripts
    /\ verdicts = <<>>
    /\ SeededUnused
    /\ SplitterUnused
    /\ message \in Messages
    /\ secret_key \in {from_seed(seed) : seed \in 0..MaxWinternitzSeed}
    /\ signature = NoSignature
    /\ verified = "none"
    /\ recovered = NotRun
    /\ forged = NotForged
    /\ GenericUnused
    /\ ProtocolUnused

disprove_vars == <<program, program_input, split_result, origin, random, distorted,
                   disprove_scripts, verdicts>>

Sign ==
    /\ signature = NoSignature
    /\ signature' = [sig |-> sign(secret_key, from_u32(message)), msg |-> from_u32(message)]
    /\ UNCHANGED <<message, secret_key, verified, recovered, forged>>
    /\ UNCHANGED <<disprove_vars, seeded_vars, splitter_vars, generic_vars, protocol_vars>>

Verify ==
    /\ signature # NoSignature
    /\ verified = "none"
    /\ verified' = IF verify(public_key(secret_key), from_u32(message), signature.sig)
                   THEN "accepted" ELSE "rejected"
    /\ UNCHANGED <<message, secret_key, signature, recovered, forged>>
    /\ UNCHANGED <<disprove_vars, seeded_vars, splitter_vars, generic_vars, protocol_vars>>

VerifyInScript ==
    /\ signature # NoSignature
    /\ recovered = NotRun
    /\ recovered' = Run("script", execute_script(
           to_script_sig(signature.sig, signature.msg)
           \o checksig_verify_script(public_key(secret_key))
           \o recovery_script))
    /\ UNCHANGED <<message, secret_key, signature, verified, forged>>
    /\ UNCHANGED <<disprove_vars, seeded_vars, splitter_vars, generic_vars, protocol_vars>>

VerifyInScriptCompact ==
    /\ signature # NoSignature
    /\ recovered = NotRun
    /\ recovered' = Run("compact", execute_script(
           to_script_sig_compact(signature.sig, signature.msg)
           \o PublicKey_checksig_verify_script_compact(public_key(secret_key), signature.msg)
           \o recovery_script_compact(signature.msg)))
    /\ UNCHANGED <<message, secret_key, signature, verified, forged>>
    /\ UNCHANGED <<disprove_vars, seeded_vars, splitter_vars, generic_vars, protocol_vars>>

IntoU32 ==
    /\ recovered = NotRun
    /\ recovered' = [tag |-> "into_u32", ok |-> TRUE,
                     stack |-> <<into_u32(from_u32(message))>>, alt |-> <<>>]
    /\ UNCHANGED <<message, secret_key, signature, verified, forged>>
    /\ UNCHANGED <<disprove_vars, seeded_vars, splitter_vars, generic_vars, protocol_vars>>

RecoveryScript ==
    /\ recovered = NotRun
    /\ recovered' = Run("recovery", execute_script(
           digits_script(from_u32(message)) \o recovery_script))
    /\ UNCHANGED <<message, secret_key, signature, verified, forged>>
    /\ UNCHANGED <<disprove_vars, seeded_vars, splitter_vars, generic_vars, protocol_vars>>

\* what further hashing makes of a signature: a chunk is hashed on when the
\* digit aimed at is not below the signed one, and is left as it is otherwise
advance(sig, signed, aimed) ==
    [i \in 1..N |-> IF aimed[i] >= signed[i]
                    THEN hash_times(sig[i], aimed[i] - signed[i])
                    ELSE sig[i]]

\* a signature shown in a witness is advanced to one of another value
Advance(target) ==
    /\ signature # NoSignature
    /\ recovered.tag \in {"script", "compact"}
    /\ forged = NotForged
    /\ target # message
    /\ forged' = [tag |-> "advanced", target |-> target,
                  verdict |-> IF verify(public_key(secret_key), from_u32(target),
                                        advance(signature.sig, signature.msg, from_u32(target)))
                              THEN "accepted" ELSE "rejected"]
    /\ UNCHANGED <<message, secret_key, signature, verified, recovered>>
    /\ UNCHANGED <<disprove_vars, seeded_vars, splitter_vars, generic_vars, protocol_vars>>

WinternitzNext ==
    \/ \E target \in Messages : Advance(target)
    \/ Sign
    \/ Verify
    \/ VerifyInScript
    \/ VerifyInScriptCompact
    \/ IntoU32
    \/ RecoveryScript

WinternitzSpec == WinternitzInit /\ [][WinternitzNext]_vars

LeftExactly(run, value) == run.ok /\ run.stack = <<value>> /\ run.alt = <<>>

\* C18: for every seed and every value below 2^31, the public key of the
\* seeded secret key verifies the signature of the value, in PublicKey::verify
\* and on the stack machine, where the witness followed by the verification
\* and recovery scripts leaves exactly the value.
C18_SignVerifyRoundTrip ==
    /\ verified # "none" => verified = "accepted"
    /\ recovered.tag = "script" => LeftExactly(recovered, message)

C18_Witness ==
    /\ message = 305419896
    /\ secret_key = from_seed(1)
    /\ verified = "accepted"
    /\ recovered.tag = "script"
    /\ recovered.stack = <<305419896>>

\* C19: for every value below 2^31, into_u32 of from_u32 of the value is the
\* value, and the recovery script run on its eight digits, the least
\* significant one on top, leaves exactly the value.
C19_MessageRoundTrip ==
    /\ recovered.tag = "into_u32" => recovered.stack = <<message>>
    /\ recovered.tag = "recovery" => LeftExactly(recovered, message)

C19_Witness ==
    /\ message = 2147483647
    /\ recovered.tag = "recovery"
    /\ recovered.stack = <<2147483647>>

\* the most significant zero digits of the value, counted on the value itself
RECURSIVE ZeroDigitsFromLeft(_, _)
ZeroDigitsFromLeft(value, i) ==
    IF i = 0 THEN 0
    ELSE IF value >= Pow2(BITS_PER_DIGIT * (i - 1)) THEN 0
    ELSE 1 + ZeroDigitsFromLeft(value, i - 1)

DigitsKept(value) == N0 - Min(ZeroDigitsFromLeft(value, N0), N0 - 1)

\* C20: for every value below 2^31, 0 included, the witness without the
\* leading zero digits, at most N0 - 1 of them, verifies against the same
\* public key with the compact verification script, the compact recovery
\* script leaves exactly the value, and at least one digit is kept.
C20_CompactEncoding ==
    signature # NoSignature =>
        /\ N0 - count_zero_limbs_from_left(signature.msg) = DigitsKept(message)
        /\ DigitsKept(message) >= 1
        /\ Len(to_script_sig_compact(signature.sig, signature.msg))
               = 2 * (DigitsKept(message) + N1)
        /\ recovered.tag = "compact" => LeftExactly(recovered, message)

C20_Witness ==
    /\ message = 0
    /\ recovered.tag = "compact"
    /\ recovered.ok
    /\ recovered.stack = <<0>>
    /\ Len(to_script_sig_compact(signature.sig, signature.msg)) = 2 * (1 + N1)

(***************************************************************************)
(* One-time keys over the scripts built for one SplitResult                *)
(***************************************************************************)
SignedElementsOf(signed) ==
    {signed.stack[i] : i \in 1..Len(signed.stack)}
    \cup {signed.altstack[i] : i \in 1..Len(signed.altstack)}

SignedElements(scripts) ==
    UNION {SignedElementsOf(scripts[i].from) \cup SignedElementsOf(scripts[i].to) :
               i \in 1..Len(scripts)}

SingleUse(elements) ==
    \A a \in elements : \A b \in elements :
        a.key = b.key => a.stack_element = b.stack_element

\* C21: across all disprove scripts built for one SplitResult, by
\* DisproveScript::new as well as by new_with_seed with one seed, no secret
\* key signs two different stack-element values.
C21_SingleUseKeys ==
    disprove_scripts.tag = "ok" => SingleUse(SignedElements(disprove_scripts.scripts))

(***************************************************************************)
(* nero-core : the commitments of adjacent disprove scripts                *)
(***************************************************************************)
\* extract_signed_states / Context::signed_states
extract_signed_states(disproves) ==
    <<disproves[1].from>> \o [i \in 1..Len(disproves) |-> disproves[i].to]

\* what a signed element commits to: its value and its public key
ElementCommitment(element) ==
    [stack_element |-> element.stack_element, public_key |-> public_key(element.key)]

Commitment(signed) ==
    [stack |-> [i \in 1..Len(signed.stack) |-> ElementCommitment(signed.stack[i])],
     altstack |-> [i \in 1..Len(signed.altstack) |-> ElementCommitment(signed.altstack[i])]]

Commitments(states) == {Commitment(states[i]) : i \in 1..Len(states)}

\* the scripts as nero-core's disprove_scripts_with_constructor builds them
NeroScripts ==
    nero_disprove_scripts_with_constructor(program_input, BuiltOf, ConstructorUsed).scripts

AdjacentCommitmentsAgree(scripts) ==
    \A i \in 1..(Len(scripts) - 1) : Commitment(scripts[i + 1].from) = Commitment(scripts[i].to)

EveryCommitmentListed(scripts) ==
    \A i \in 1..Len(scripts) :
        /\ Commitment(scripts[i].from) \in Commitments(extract_signed_states(scripts))
        /\ Commitment(scripts[i].to) \in Commitments(extract_signed_states(scripts))

\* C22: for adjacent disprove scripts i and i+1 of the form_disprove_scripts
\* family, seeded or not, the signed from_state of script i+1 is the same
\* commitment (values and public keys) as the signed to_state of script i, so
\* the list of extract_signed_states holds every commitment a script verifies.
C22_AdjacentCommitments ==
    (FormedScripts /\ Len(disprove_scripts.scripts) > 0) =>
        /\ AdjacentCommitmentsAgree(NeroScripts)
        /\ EveryCommitmentListed(NeroScripts)

(***************************************************************************)
(* Claimed states with another number of elements than the actual output   *)
(***************************************************************************)
CountDiffers(ds, r) == r.ok /\ ~SameShape(from_exec(r), Unsigned(ds.to))

Disproved(verdict) == verdict.ok /\ Len(verdict.stack) = 1 /\ verdict.stack[1] # 0

\* C23: a claimed to state whose main-stack or alt-stack element count differs
\* from that of the actual output of the function on from is disprovable: the
\* verifier, run on the built witness, ends with exactly one true element and
\* nothing else on the stack.
C23_CountMismatchDisprovable ==
    Executed =>
        \A i \in 1..Len(verdicts) :
            CountDiffers(disprove_scripts.scripts[i], ActualRun(disprove_scripts.scripts[i]))
                => Disproved(verdicts[i])

(***************************************************************************)
(* What distort leaves alone                                               *)
(***************************************************************************)
Distorted == distorted.tag = "ok" /\ split_result.tag = "ok"

\* all elements of the stack but the top one are those of the original
NonTopKept(stack, original) ==
    /\ Len(stack) = Len(original)
    /\ \A i \in 1..(Len(original) - 1) : stack[i] = original[i]

OnlyMainStackAt(result, original, id) ==
    /\ result.shards = original.shards
    /\ Len(result.intermediate_states) = Len(original.intermediate_states)
    /\ \A j \in 1..Len(original.intermediate_states) :
           j # id + 1 => result.intermediate_states[j] = original.intermediate_states[j]
    /\ result.intermediate_states[id + 1].altstack
           = original.intermediate_states[id + 1].altstack
    /\ NonTopKept(result.intermediate_states[id + 1].stack,
                  original.intermediate_states[id + 1].stack)

ReceiverUntouched == (\E r \in 0..MaxRandom : Distort(r)) => split_result' = split_result

\* C24: distort changes nothing but the main stack of the state at the
\* returned index: the receiver is left untouched, and in the returned
\* SplitResult every shard, every other state, and the alt stack and all
\* non-top main-stack elements of the distorted state equal the original ones.
C24_DistortFrame ==
    /\ [](Distorted => OnlyMainStackAt(distorted.result, split_result, distorted.id))
    /\ [][ReceiverUntouched]_vars

C24_Witness ==
    /\ Distorted
    /\ Len(split_result.shards) >= 2
    /\ distorted.id = 1
    /\ Len(split_result.intermediate_states[2].stack) >= 2
    /\ Len(split_result.intermediate_states[2].altstack) >= 1
    /\ distorted.result.intermediate_states[2].stack # split_result.intermediate_states[2].stack

(***************************************************************************)
(* The checksum of the 31-bit encoding                                     *)
(***************************************************************************)
RECURSIVE SumOfDigits(_, _)
SumOfDigits(digits, n) == IF n = 0 THEN 0 ELSE SumOfDigits(digits, n - 1) + digits[n]

ChecksumEncoded(digits) ==
    /\ \A i \in 1..N : digits[i] \in 0..D
    /\ digits[N0 + 1] + (D + 1) * digits[N0 + 2] = D * N0 - SumOfDigits(digits, N0)

SomeDigitSmaller(digits, than) == \E i \in 1..N : digits[i] < than[i]

\* C29: for every value below 2^31 the two checksum digits of from_u32 encode
\* D * N0 minus the sum of the eight message digits, every digit in 0..15, and
\* for two distinct values a and b some digit of from_u32(b) is strictly
\* smaller than that digit of from_u32(a), so that a signature of a cannot be
\* advanced by further hashing into a signature of b.
C29_ChecksumProtection ==
    /\ ChecksumEncoded(from_u32(message))
    /\ \A b \in Messages \ {message} : SomeDigitSmaller(from_u32(b), from_u32(message))
    /\ forged.tag = "advanced" => forged.verdict = "rejected"

\* the value 1 was signed and the signature advanced towards 15, whose only
\* smaller digit is a checksum digit
C29_Witness ==
    /\ message = 1
    /\ forged.tag = "advanced"
    /\ forged.target = 15
    /\ \A i \in 1..N0 : from_u32(forged.target)[i] >= from_u32(message)[i]
    /\ forged.verdict = "rejected"

(***************************************************************************)
(* The generic Winternitz encoding of a byte string (lib.rs)               *)
(***************************************************************************)
\* lib.rs has its own D, the largest digit of the generic encoding
GenericD == 3

RECURSIVE ilog(_, _)
ilog(x, b) == IF x < b THEN 0 ELSE 1 + ilog(x \div b, b)

BASE == ilog(GenericD + 1, 2)

div_ceil(x, y) == (x + y - 1) \div y

\* bit k of a byte slice in Lsb0 order: the bits of byte 0 from the least
\* significant one, then those of byte 1, ...
BitAt(bytes, k) == (bytes[(k \div 8) + 1] \div (2 ^ (k % 8))) % 2

RECURSIVE bitbuf(_, _, _)
\* the bits k .. k + width - 1 gathered with bit idx at position idx
bitbuf(bytes, k, width) ==
    IF width = 0 THEN 0
    ELSE BitAt(bytes, k) + 2 * bitbuf(bytes, k + 1, width - 1)

\* bits.chunks(BASE).take(n): the first n chunks of BASE bits
take_chunks(bytes, n) == [j \in 1..n |-> bitbuf(bytes, (j - 1) * BASE, BASE)]

\* u128::to_be_bytes of a value below 2^31: twelve zero bytes come first
to_be_bytes(x) ==
    [i \in 1..16 |-> IF i <= 12 THEN 0 ELSE (x \div (256 ^ (16 - i))) % 256]

RECURSIVE sum(_, _)
sum(digits, n) == IF n = 0 THEN 0 ELSE sum(digits, n - 1) + digits[n]

from_bytes(msg) ==
    IF msg = <<>> THEN <<>>
    ELSE LET v == Len(msg)
             n0 == div_ceil(v, BASE)
             result == take_chunks(msg, n0)
             n1 == ilog(GenericD * n0, GenericD + 1) + 1
             checksum == GenericD * n0 - sum(result, n0)
         IN  result \o take_chunks(to_be_bytes(checksum), n1)

MaxMsgLen == 3
ByteValues == {0, 1, 3, 4, 128, 255}
ByteStrings == UNION {[1..n -> ByteValues] : n \in 0..MaxMsgLen}

DisproveUnused ==
    /\ program = <<>>
    /\ program_input = <<>>
    /\ split_result = NoResult
    /\ origin = "none"
    /\ random = 0
    /\ distorted = NotDistorted
    /\ disprove_scripts = NoScripts
    /\ verdicts = <<>>

GenericInit ==
    /\ msg_bytes \in ByteStrings
    /\ encoded = NoMessage
    /\ DisproveUnused
    /\ SeededUnused
    /\ SplitterUnused
    /\ WinternitzUnused
    /\ ProtocolUnused

FromBytes ==
    /\ encoded = NoMessage
    /\ encoded' = [tag |-> "message", digits |-> from_bytes(msg_bytes)]
    /\ UNCHANGED msg_bytes
    /\ UNCHANGED <<disprove_vars, seeded_vars, splitter_vars, winternitz_vars, protocol_vars>>

GenericNext == FromBytes

GenericSpec == GenericInit /\ [][GenericNext]_vars

Encoded == encoded.tag = "message"

\* no other byte string of the same length has the digits of the encoded one
BindsWholeMessage ==
    \A other \in ByteStrings :
        (Len(other) = Len(msg_bytes) /\ from_bytes(other) = encoded.digits)
            => other = msg_bytes

RECURSIVE ValueLsdFirst(_, _, _)
ValueLsdFirst(digits, first, n) ==
    IF n = 0 THEN 0
    ELSE digits[first] + (GenericD + 1) * ValueLsdFirst(digits, first + 1, n - 1)

RECURSIVE ValueMsdFirst(_, _, _)
ValueMsdFirst(digits, first, n) ==
    IF n = 0 THEN 0
    ELSE ValueMsdFirst(digits, first, n - 1) * (GenericD + 1) + digits[first + n - 1]

\* the digits after the first n0 are the number D * n0 - (sum of the first
\* n0 digits) in base D + 1, in one digit order or the other
ChecksumDigitsEncode(bytes, digits) ==
    bytes # <<>> =>
        LET n0 == div_ceil(Len(bytes), BASE)
            n1 == Len(digits) - n0
            expected == GenericD * n0 - sum(digits, n0)
        IN  \/ ValueLsdFirst(digits, n0 + 1, n1) = expected
            \/ ValueMsdFirst(digits, n0 + 1, n1) = expected

C30_BindsWholeMessage == Encoded => BindsWholeMessage

C30_ChecksumDigits == Encoded => ChecksumDigitsEncode(msg_bytes, encoded.digits)

\* C30: Message::from_bytes binds the whole message: two byte strings of the
\* same length have the same digit vector only if they are equal, and the
\* trailing checksum digits encode D * n0 minus the sum of the message digits.
C30_FromBytesBinds ==
    Encoded => (BindsWholeMessage /\ ChecksumDigitsEncode(msg_bytes, encoded.digits))

(***************************************************************************)
(* The operator's setup and the transaction graph (nero-core)              *)
(***************************************************************************)
MaxPeriod == 2
MaxHeight == 4
MaxOperatorSeed == 2
MaxDisproves == 2

Periods == 0..MaxPeriod

\* the committee's keys as the configuration lists them
Committees == {<<3>>, <<1, 3>>, <<3, 1>>, <<3, 5>>}

\* the key pair drawn from the generator of the seed
generate_keypair(seed) == [seckey |-> seed, pubkey |-> 2 * seed]

RECURSIVE insert_sorted(_, _)
insert_sorted(keys, key) ==
    IF keys = <<>> THEN <<key>>
    ELSE IF key <= Head(keys) THEN <<key>> \o keys
    ELSE <<Head(keys)>> \o insert_sorted(Tail(keys), key)

RECURSIVE sort(_)
sort(keys) == IF keys = <<>> THEN <<>> ELSE insert_sorted(sort(Tail(keys)), Head(keys))

\* MuSig2 key aggregation: the coefficients are hashes of the ordered list
\* of keys, so the aggregated key stands for that list
KeyAggContext_new(points) == [pubkeys |-> points]

aggregated_pubkey(key_ctx) == [agg |-> key_ctx.pubkeys]

\* the disprove scripts of a setup: each embeds the covenant key it was
\* formed with; `distorted` is the index of the script of the distorted
\* state, 0 when no state was changed
protocol_disprove_scripts(count, comittee_aggpubkey, distorted_idx) ==
    [i \in 1..count |-> [covenant |-> comittee_aggpubkey, spendable |-> i = distorted_idx]]

compute_setup_with(claim_challenge_period, assert_challenge_period, operator_pubkey, comittee, count, distorted_idx) ==
    LET sorted == sort(comittee)
        key_ctx == KeyAggContext_new(<<operator_pubkey>> \o sorted)
        comittee_aggpubkey == aggregated_pubkey(key_ctx)
    IN  [tag |-> "context",
         operator_pubkey |-> operator_pubkey,
         comittee |-> sorted,
         claim_challenge_period |-> claim_challenge_period,
         assert_challenge_period |-> assert_challenge_period,
         disprove_scripts |->
             protocol_disprove_scripts(count, comittee_aggpubkey, distorted_idx)]

compute_setup(claim_challenge_period, assert_challenge_period, operator_pubkey, comittee, count) ==
    compute_setup_with(claim_challenge_period, assert_challenge_period,
                       operator_pubkey, comittee, count, 0)

compute_setup_distorted(claim_challenge_period, assert_challenge_period, operator_pubkey, comittee, count, distorted_idx) ==
    compute_setup_with(claim_challenge_period, assert_challenge_period,
                       operator_pubkey, comittee, count, distorted_idx)

\* the arguments in the order of the call: the assert period comes first
Operator_new(cfg) ==
    compute_setup(cfg.assert_challenge_period,
                  cfg.claim_challenge_period,
                  generate_keypair(cfg.seed).pubkey,
                  cfg.comittee,
                  cfg.shards)

Operator_new_distorted(cfg, distorted_idx) ==
    compute_setup_distorted(cfg.assert_challenge_period,
                            cfg.claim_challenge_period,
                            generate_keypair(cfg.seed).pubkey,
                            cfg.comittee,
                            cfg.shards,
                            distorted_idx)

comittee_keyaggctx(ctx) ==
    KeyAggContext_new(sort(<<ctx.operator_pubkey>> \o ctx.comittee))

comittee_aggpubkey(ctx) == aggregated_pubkey(comittee_keyaggctx(ctx))

(***************************************************************************)
(* Scripts of the outputs, as far as time locks and covenants go           *)
(***************************************************************************)
KeySpend == [csv |-> <<>>, covenant |-> <<>>, spendable |-> TRUE]

height_to_le_bytes(value) == <<value % 256, value \div 256>>

\* a script number of two bytes: little endian, the top bit is the sign
scriptint(bytes) ==
    LET magnitude == bytes[1] + 256 * (bytes[2] % 128)
    IN  IF bytes[2] >= 128 THEN 0 - magnitude ELSE magnitude

PayoutScript_to_script(locktime, operator_pubkey, aggpubkey) ==
    [csv |-> <<locktime>>, covenant |-> <<aggpubkey>>, spendable |-> TRUE]

OptimisticPayoutScript_to_script(claim_challenge_period, aggpubkey) ==
    [csv |-> <<claim_challenge_period>>, covenant |-> <<aggpubkey>>, spendable |-> TRUE]

\* the leaf that Claim::taptree holds: the period as two bytes, no covenant
optimistic_payout_script(claim_challenge_period, aggpubkey) ==
    [csv |-> <<scriptint(height_to_le_bytes(claim_challenge_period))>>,
     covenant |-> <<>>, spendable |-> TRUE]

assert_script(aggpubkey) ==
    [csv |-> <<>>, covenant |-> <<aggpubkey>>, spendable |-> TRUE]

DisproveScript_to_script_pubkey(script) ==
    [csv |-> <<>>, covenant |-> <<script.covenant>>, spendable |-> script.spendable]

(***************************************************************************)
(* The transactions                                                        *)
(***************************************************************************)
Txid(name, idx) == <<name, idx>>

OutPoint(txid, vout) == [txid |-> txid, vout |-> vout]

TxIn(previous_output, sequence, leaf) ==
    [previous_output |-> previous_output, sequence |-> sequence, leaf |-> leaf]

Sequence_from_height(blocks) == blocks

FundingTxid == Txid("Funding", 0)

\* the claim with the funding input of the wallet
Claim_to_tx(ctx) ==
    [txid |-> Txid("Claim", 0), version |-> 1,
     input |-> <<TxIn(OutPoint(FundingTxid, 0), 0, KeySpend)>>,
     outputs |-> 2]

Challenge_to_unsigned_tx(ctx) ==
    [txid |-> Txid("Challenge", 0), version |-> 1,
     input |-> <<TxIn(OutPoint(Txid("Claim", 0), 1), 0, KeySpend)>>,
     outputs |-> 1]

Assert_to_unsigned_tx(ctx) ==
    [txid |-> Txid("Assert", 0), version |-> 1,
     input |-> <<TxIn(OutPoint(Txid("Claim", 0), 0), 0,
                      assert_script(comittee_aggpubkey(ctx)))>>,
     outputs |-> 1]

PayoutOptimistic_to_unsigned_tx(ctx) ==
    [txid |-> Txid("PayoutOptimistic", 0), version |-> 2,
     input |-> <<TxIn(OutPoint(Txid("Claim", 0), 0),
                      Sequence_from_height(ctx.claim_challenge_period),
                      optimistic_payout_script(ctx.claim_challenge_period,
                                               comittee_aggpubkey(ctx))),
                 TxIn(OutPoint(Txid("Claim", 0), 1), 0, KeySpend)>>,
     outputs |-> 1]

\* a payout that spends output 0 of the claim
Payout_spending_claim(ctx) ==
    [txid |-> Txid("Payout", 0), version |-> 2,
     input |-> <<TxIn(OutPoint(Txid("Claim", 0), 0),
                      Sequence_from_height(ctx.assert_challenge_period),
                      PayoutScript_to_script(ctx.assert_challenge_period,
                                             ctx.operator_pubkey,
                                             comittee_aggpubkey(ctx)))>>,
     outputs |-> 1]

\* a payout whose input has the sequence 0
Payout_without_sequence(ctx) ==
    [txid |-> Txid("Payout", 0), version |-> 2,
     input |-> <<TxIn(OutPoint(Txid("Assert", 0), 0),
                      0,
                      PayoutScript_to_script(ctx.assert_challenge_period,
                                             ctx.operator_pubkey,
                                             comittee_aggpubkey(ctx)))>>,
     outputs |-> 1]

Payout_to_unsigned_tx(ctx) ==
    [txid |-> Txid("Payout", 0), version |-> 2,
     input |-> <<TxIn(OutPoint(Txid("Assert", 0), 0),
                      Sequence_from_height(ctx.assert_challenge_period),
                      PayoutScript_to_script(ctx.assert_challenge_period,
                                             ctx.operator_pubkey,
                                             comittee_aggpubkey(ctx)))>>,
     outputs |-> 1]

Disprove_to_unsigned_tx(ctx, idx) ==
    [txid |-> Txid("Disprove", idx), version |-> 1,
     input |-> <<TxIn(OutPoint(Txid("Assert", 0), 0), 0,
                      DisproveScript_to_script_pubkey(ctx.disprove_scripts[idx]))>>,
     outputs |-> 1]

(***************************************************************************)
(* The chain: single spends, BIP68 and OP_CSV                              *)
(***************************************************************************)
IsConfirmed(chain, txid) ==
    txid = FundingTxid \/ \E i \in 1..Len(chain) : chain[i].tx.txid = txid

HeightOf(chain, txid) ==
    IF txid = FundingTxid THEN 0
    ELSE chain[CHOOSE i \in 1..Len(chain) : chain[i].tx.txid = txid].at

OutputsOf(chain, txid) ==
    IF txid = FundingTxid THEN 1
    ELSE chain[CHOOSE i \in 1..Len(chain) : chain[i].tx.txid = txid].tx.outputs

Spent(chain, outpoint) ==
    \E i \in 1..Len(chain) :
        \E k \in 1..Len(chain[i].tx.input) :
            chain[i].tx.input[k].previous_output = outpoint

\* BIP68: an input of a transaction of version 2 or more may be mined no
\* earlier than `sequence` blocks above the block of the output it spends
Bip68(tx, txin, chain, at) ==
    tx.version >= 2 => at >= HeightOf(chain, txin.previous_output.txid) + txin.sequence

\* BIP112: OP_CSV fails on a negative lock, on a transaction of version 1
\* and on a lock above the sequence of the input
OP_CSV(tx, txin) ==
    txin.leaf.csv # <<>> =>
        /\ txin.leaf.csv[1] >= 0
        /\ tx.version >= 2
        /\ txin.leaf.csv[1] <= txin.sequence

InputsConfirmed(tx, chain) ==
    \A k \in 1..Len(tx.input) :
        /\ IsConfirmed(chain, tx.input[k].previous_output.txid)
        /\ tx.input[k].previous_output.vout
               < OutputsOf(chain, tx.input[k].previous_output.txid)

\* the time locks of the transaction allow it at this height
Eligible(tx, chain, at) ==
    /\ InputsConfirmed(tx, chain)
    /\ \A k \in 1..Len(tx.input) :
           Bip68(tx, tx.input[k], chain, at) /\ OP_CSV(tx, tx.input[k])

\* the covenant signature is aggregated under comittee_keyaggctx
CovenantHolds(ctx, leaf) ==
    leaf.covenant # <<>> => leaf.covenant[1] = comittee_aggpubkey(ctx)

WitnessHolds(ctx, tx) ==
    \A k \in 1..Len(tx.input) :
        tx.input[k].leaf.spendable /\ CovenantHolds(ctx, tx.input[k].leaf)

Unspent(tx, chain) ==
    \A k \in 1..Len(tx.input) : ~Spent(chain, tx.input[k].previous_output)

CanConfirm(ctx, tx, chain, at) ==
    /\ ~IsConfirmed(chain, tx.txid)
    /\ Eligible(tx, chain, at)
    /\ Unspent(tx, chain)
    /\ WitnessHolds(ctx, tx)

(***************************************************************************)
(* The steps                                                               *)
(***************************************************************************)
Configs ==
    [tag : {"config"},
     claim_challenge_period : Periods,
     assert_challenge_period : Periods,
     comittee : Committees,
     seed : 1..MaxOperatorSeed,
     shards : 1..MaxDisproves]

ProtocolInit ==
    /\ config \in Configs
    /\ context = NoContext
    /\ height = 0
    /\ confirmed = NoChain
    /\ DisproveUnused
    /\ SeededUnused
    /\ SplitterUnused
    /\ WinternitzUnused
    /\ GenericUnused

protocol_frame == <<disprove_vars, seeded_vars, splitter_vars, winternitz_vars, generic_vars>>

OperatorNew ==
    /\ context = NoContext
    /\ context' = Operator_new(config)
    /\ UNCHANGED <<config, height, confirmed>>
    /\ UNCHANGED protocol_frame

\* the generator of the seed picks the state to distort; 0 stands for a
\* distortion that leaves the state as it was
OperatorNewDistorted(distorted_idx) ==
    /\ context = NoContext
    /\ distorted_idx <= config.shards
    /\ context' = Operator_new_distorted(config, distorted_idx)
    /\ UNCHANGED <<config, height, confirmed>>
    /\ UNCHANGED protocol_frame

Confirm(tx) ==
    /\ context # NoContext
    /\ CanConfirm(context, tx, confirmed, height)
    /\ confirmed' = Append(confirmed, [tx |-> tx, at |-> height])
    /\ UNCHANGED <<config, context, height>>
    /\ UNCHANGED protocol_frame

ConfirmClaim == context # NoContext /\ Confirm(Claim_to_tx(context))

ConfirmChallenge == context # NoContext /\ Confirm(Challenge_to_unsigned_tx(context))

ConfirmAssert == context # NoContext /\ Confirm(Assert_to_unsigned_tx(context))

ConfirmPayoutOptimistic ==
    context # NoContext /\ Confirm(PayoutOptimistic_to_unsigned_tx(context))

ConfirmPayout == context # NoContext /\ Confirm(Payout_to_unsigned_tx(context))

ConfirmDisprove(idx) ==
    /\ context # NoContext
    /\ idx \in 1..Len(context.disprove_scripts)
    /\ Confirm(Disprove_to_unsigned_tx(context, idx))

\* a block is mined
Tick ==
    /\ height < MaxHeight
    /\ height' = height + 1
    /\ UNCHANGED <<config, context, confirmed>>
    /\ UNCHANGED protocol_frame

ProtocolNext ==
    \/ OperatorNew
    \/ \E distorted_idx \in 0..MaxDisproves : OperatorNewDistorted(distorted_idx)
    \/ ConfirmClaim
    \/ ConfirmChallenge
    \/ ConfirmAssert
    \/ ConfirmPayoutOptimistic
    \/ ConfirmPayout
    \/ \E idx \in 1..MaxDisproves : ConfirmDisprove(idx)
    \/ Tick

ProtocolSpec == ProtocolInit /\ [][ProtocolNext]_vars

SetUp == context # NoContext

\* C25: Operator::new and Operator::new_distorted build a context whose
\* claim_challenge_period is that of the configuration and whose
\* assert_challenge_period is that of the configuration, for every pair of
\* configured periods, unequal ones included.
C25_PeriodsOfConfig ==
    SetUp => /\ context.claim_challenge_period = config.claim_challenge_period
             /\ context.assert_challenge_period = config.assert_challenge_period

\* C26: the covenant aggregated key that compute_setup embeds in the disprove
\* scripts is the aggregated key of comittee_keyaggctx, under which the
\* partial signatures are made and aggregated, wherever the operator key
\* sorts among the committee keys.
C26_CovenantKey ==
    SetUp => \A i \in 1..Len(context.disprove_scripts) :
                 context.disprove_scripts[i].covenant = comittee_aggpubkey(context)

ClaimTxid == Txid("Claim", 0)
AssertTxid == Txid("Assert", 0)

Disproves(ctx) == {Disprove_to_unsigned_tx(ctx, i) : i \in 1..Len(ctx.disprove_scripts)}

DisproveConfirmed ==
    \E i \in 1..Len(context.disprove_scripts) : IsConfirmed(confirmed, Txid("Disprove", i))

\* no two confirmed transactions spend the same output
SingleSpend ==
    \A i, j \in 1..Len(confirmed) :
        \A k \in 1..Len(confirmed[i].tx.input) :
            \A l \in 1..Len(confirmed[j].tx.input) :
                confirmed[i].tx.input[k].previous_output
                    = confirmed[j].tx.input[l].previous_output
                => (i = j /\ k = l)

SpendersOfAssert ==
    {i \in 1..Len(confirmed) :
        confirmed[i].tx.input[1].previous_output = OutPoint(AssertTxid, 0)}

SharedOutputs ==
    /\ Payout_to_unsigned_tx(context).input[1].previous_output = OutPoint(AssertTxid, 0)
    /\ \A tx \in Disproves(context) : tx.input[1].previous_output = OutPoint(AssertTxid, 0)
    /\ Assert_to_unsigned_tx(context).input[1].previous_output = OutPoint(ClaimTxid, 0)
    /\ PayoutOptimistic_to_unsigned_tx(context).input[1].previous_output = OutPoint(ClaimTxid, 0)
    /\ PayoutOptimistic_to_unsigned_tx(context).input[2].previous_output = OutPoint(ClaimTxid, 1)
    /\ Challenge_to_unsigned_tx(context).input[1].previous_output = OutPoint(ClaimTxid, 1)

SpentOnce ==
    SetUp =>
        /\ SharedOutputs
        /\ SingleSpend
        /\ Cardinality(SpendersOfAssert) <= 1
        /\ ~(IsConfirmed(confirmed, Txid("Payout", 0)) /\ DisproveConfirmed)
        /\ IsConfirmed(confirmed, Txid("PayoutOptimistic", 0))
              => /\ ~IsConfirmed(confirmed, AssertTxid)
                 /\ ~IsConfirmed(confirmed, Txid("Challenge", 0))

NoOptimisticPayoutAfterwards ==
    (SetUp /\ (IsConfirmed(confirmed, AssertTxid) \/ IsConfirmed(confirmed, Txid("Challenge", 0))))
        => ~IsConfirmed(confirmed', Txid("PayoutOptimistic", 0))

\* C27: in every order of confirmations outputs are spent at most once: Payout
\* and every Disprove spend Assert output 0, so at most one of them confirms;
\* the Assert and the optimistic Payout spend Claim output 0 and Challenge and the
\* optimistic Payout spend Claim output 1, so the optimistic Payout never
\* confirms once the Assert or a Challenge has confirmed.
C27_SpentOnce == []SpentOnce /\ [][NoOptimisticPayoutAfterwards]_vars

\* a Disprove has confirmed and a Challenge too; the time lock of the Payout
\* has run out, yet its input is spent
C27_Witness ==
    /\ SetUp
    /\ DisproveConfirmed
    /\ IsConfirmed(confirmed, Txid("Challenge", 0))
    /\ Eligible(Payout_to_unsigned_tx(context), confirmed, height)
    /\ ~Unspent(Payout_to_unsigned_tx(context), confirmed)
    /\ ~Unspent(PayoutOptimistic_to_unsigned_tx(context), confirmed)

BlocksSince(txid) == height - HeightOf(confirmed, txid)

DisproveAtOnce ==
    IsConfirmed(confirmed, AssertTxid) =>
        \A tx \in Disproves(context) :
            tx.input[1].sequence = 0 /\ Eligible(tx, confirmed, height)

PayoutLocked ==
    LET tx == Payout_to_unsigned_tx(context)
    IN  /\ tx.input[1].sequence = context.assert_challenge_period
        /\ tx.input[1].leaf.csv = <<tx.input[1].sequence>>
        /\ IsConfirmed(confirmed, AssertTxid) =>
               (Eligible(tx, confirmed, height)
                   <=> BlocksSince(AssertTxid) >= context.assert_challenge_period)

PayoutOptimisticLocked ==
    LET tx == PayoutOptimistic_to_unsigned_tx(context)
    IN  /\ tx.input[1].sequence = context.claim_challenge_period
        /\ OptimisticPayoutScript_to_script(context.claim_challenge_period,
                                            comittee_aggpubkey(context)).csv
               = <<tx.input[1].sequence>>
        /\ tx.input[1].leaf.csv = <<tx.input[1].sequence>>
        /\ IsConfirmed(confirmed, ClaimTxid) =>
               (Eligible(tx, confirmed, height)
                   <=> BlocksSince(ClaimTxid) >= context.claim_challenge_period)

ConfirmedAfterLock ==
    \A i \in 1..Len(confirmed) :
        /\ confirmed[i].tx.txid = Txid("Payout", 0)
              => confirmed[i].at >= HeightOf(confirmed, AssertTxid)
                                      + context.assert_challenge_period
        /\ confirmed[i].tx.txid = Txid("PayoutOptimistic", 0)
              => confirmed[i].at >= HeightOf(confirmed, ClaimTxid)
                                      + context.claim_challenge_period

\* C28: after the Assert transaction confirms a Disprove transaction (input
\* sequence 0) is eligible immediately, while the Payout is not eligible until
\* assert_challenge_period blocks have passed: its input sequence equals the
\* lock that the payout script checks with OP_CSV; likewise the optimistic
\* Payout is not eligible until claim_challenge_period blocks after the Claim
\* confirms.
C28_TimeLocks ==
    SetUp => /\ DisproveAtOnce
             /\ PayoutLocked
             /\ PayoutOptimisticLocked
             /\ ConfirmedAfterLock

\* a Disprove confirmed in the very block of the Assert, while the Payout is
\* held back by a period of MaxPeriod blocks
C28_Witness ==
    /\ SetUp
    /\ context.assert_challenge_period = MaxPeriod
    /\ context.claim_challenge_period < MaxPeriod
    /\ \E i \in 1..Len(confirmed) :
           /\ confirmed[i].tx.txid[1] = "Disprove"
           /\ confirmed[i].at = HeightOf(confirmed, AssertTxid)
    /\ ~Eligible(Payout_to_unsigned_tx(context), confirmed, HeightOf(confirmed, AssertTxid))
    /\ Eligible(Payout_to_unsigned_tx(context), confirmed, height)

====
